---- MODULE Spec2Model ----
(***************************************************************************)
(* LaunchSecure orchestrator: the scan lifecycle of api/scans.ts           *)
(* (POST /api/scans, executeScan, the timeout sweeps of GET /api/scans and *)
(* GET /api/scans/:id), the archive step against findings and              *)
(* findings_history, and the remediation edit PUT /api/findings/:id.       *)
(*                                                                         *)
(* Every `await db.query(...)` of a handler is one atomic step of the      *)
(* relational store; the synchronous code that follows an await up to the  *)
(* next query belongs to the step in which that next query lands, unless   *)
(* it reads the clock, in which case it is a step of its own.              *)
(***************************************************************************)
EXTENDS Integers, Sequences, FiniteSets, TLC

\* ------------------------------------------------------------------ bounds
MaxScans == 2
MaxTicks == 2
MaxActive == 1
MaxEdits == 2
MaxOccurrences == 3
MaxTotal == 500

\* --------------------------------------------------------------- constants
NULL == "null"

\* a timestamp column or local that holds no time yet
NoTime == 0 - 1

MAX_SCAN_DURATION_MS == 30 * 60 * 1000

\* one step of the wall clock: the scan budget, so that an elapsed time equal to
\* the budget (no timeout) and one above it (timeout) are both reached
TickMs == MAX_SCAN_DURATION_MS

\* rows of the clients table: id and assigned_frameworks
Clients == {"t1", "t2", "t3", "t4"}

assigned_frameworks(client_id) ==
    IF client_id = "t1" THEN <<"GDPR", "HIPAA">>
    ELSE IF client_id = "t4" THEN <<>>
    ELSE <<"GDPR">>

\* rows of the credentials table with is_active = true, as providers
ActiveCredentials(client_id) ==
    IF client_id = "t1" THEN <<"aws">>
    ELSE IF client_id = "t2" THEN <<"gcp", "aws">>
    ELSE IF client_id = "t3" THEN <<"gcp">>
    ELSE <<>>

\* POST bodies that pass createScanSchema: `frameworks` is optional
ScanRequests ==
    { [client_id |-> c] : c \in {"t1", "t2"} } \cup
    { [client_id |-> c, frameworks |-> <<"HIPAA">>] : c \in {"t1", "t2"} }

FRAMEWORK_TO_BENCHMARK ==
    [aws |-> [HIPAA |-> "aws_compliance.benchmark.hipaa_security_rule_2003",
              GDPR  |-> "aws_compliance.benchmark.gdpr"],
     gcp |-> [HIPAA |-> "gcp_compliance.benchmark.hipaa"]]

\* mutant: a framework the provider has no entry for falls back on the aws one
getBenchmarkName_awsFallback(framework, provider) ==
    IF framework \in DOMAIN FRAMEWORK_TO_BENCHMARK.aws
    THEN FRAMEWORK_TO_BENCHMARK.aws[framework]
    ELSE NULL

getBenchmarkName(framework, provider) ==
    IF provider \notin DOMAIN FRAMEWORK_TO_BENCHMARK
    THEN NULL
    ELSE IF framework \notin DOMAIN FRAMEWORK_TO_BENCHMARK[provider]
         THEN NULL
         ELSE FRAMEWORK_TO_BENCHMARK[provider][framework]

\* what one runPowerpipeBenchmark call can give back: a thrown error, or the
\* normalized controls (control ids are unique within one result)
Control(id, st) == [control_id |-> id, status |-> st]

EngineResults ==
    { <<Control("c1", "fail")>>,
      <<Control("c2", "pass")>>,
      <<Control("c2", "pass"), Control("c1", "fail")>> }

\* the remediation_status values a PUT /api/findings/:id body can carry
RemediationInputs == {"in_progress", "resolved"}

\* rows of the client_owners table, by id
Owners == {"o1"}

\* a control_metadata row; the columns not given take their DEFAULT
\* (remediation_status 'open', status_history '[]') or stay NULL
MetadataRow(client_id, control_id, given) ==
    [c \in {"client_id", "control_id", "remediation_status",
            "assigned_owner_id", "notes", "status_history",
            "ai_business_context", "ai_remediation_guidance"} |->
        IF c = "client_id" THEN client_id
        ELSE IF c = "control_id" THEN control_id
        ELSE IF c \in DOMAIN given THEN given[c]
        ELSE IF c = "remediation_status" THEN "open"
        ELSE IF c = "status_history" THEN <<>>
        ELSE NULL]

\* control_metadata as migration 002 leaves it: the annotations of the
\* findings that had any, one row per (client_id, control_id)
MigratedMetadata ==
    { MetadataRow("t1", "c1",
                  [remediation_status |-> "in_progress",
                   assigned_owner_id |-> "o1",
                   notes |-> "follow up with infra team",
                   status_history |-> <<"in_progress">>,
                   ai_business_context |-> "ai context",
                   ai_remediation_guidance |-> "ai guidance"]),
      MetadataRow("t1", "c2",
                  [remediation_status |-> "in_progress", notes |-> ""]) }

VARIABLES
    now,               \* wall clock, ms (Date.now() and the store's NOW())
    compliance_checks, \* table: sequence indexed by scan id
    findings,          \* table: set of rows
    findings_history,  \* table: set of rows
    control_metadata,  \* table: set of rows, unique in (client_id, control_id)
    nextFindingId,     \* uuid_generate_v4() for findings.id
    run,               \* executeScan activations: scan id -> locals and position
    getReq,            \* the GET /api/scans/:id request in flight
    listReq,           \* the GET /api/scans request in flight
    putReq,            \* the PUT /api/findings/:id request in flight
    edits,             \* the number of PUT /api/findings/:id requests so far
    ops,               \* history: per scan, the store and engine operations done
    invocations,       \* history: engine invocations that returned
    deleted_log,       \* history: rows removed from findings, as they were
    written_log,       \* history: rows inserted into findings, as they were
    steampipe_config,  \* the connection "aws" block of aws.spc: whose credentials
    powerpipe,         \* the parsed engine output and what the normalizer made of it
    responses,         \* per scan, the body POST /api/scans has answered with, if any
    postAnswer         \* the last error POST /api/scans has answered with, if any

vars == <<now, compliance_checks, findings, findings_history, control_metadata,
          nextFindingId, run, getReq, listReq, putReq, edits, ops, invocations,
          deleted_log, written_log, steampipe_config, powerpipe,
          responses, postAnswer>>

ScanIds == 1..Len(compliance_checks)

\* ------------------------------------------------------------ pure helpers
\* mutant: the budget taken for seconds and scaled to milliseconds once more
TimedOut_rescaled(elapsed) == elapsed > MAX_SCAN_DURATION_MS * 1000

\* if (elapsed > MAX_SCAN_DURATION_MS)
TimedOut(elapsed) == elapsed > MAX_SCAN_DURATION_MS

\* UPDATE compliance_checks SET status = $1, completed_at = NOW() WHERE id = $2
\* (completed_at is read by no handler and is left out of the rows)
SetStatus(checks, id, status) ==
    [checks EXCEPT ![id].status = status]

\* mutant: the checkpoint returns without recording the failure
TimeoutUpdate_notRecorded(checks, id) == checks

\* the UPDATE ... SET status = 'failed' of an elapsed-time checkpoint
TimeoutUpdate(checks, id) == SetStatus(checks, id, "failed")

\* mutant: the framework filter is dropped from the WHERE clause
ArchiveMatch_anyFramework(f, client_id, frameworksToScan) ==
    f.client_id = client_id

\* mutant: only the first requested framework is matched
ArchiveMatch_firstFramework(f, client_id, frameworksToScan) ==
    /\ f.client_id = client_id
    /\ f.framework = frameworksToScan[1]

\* WHERE client_id = $2 AND framework = ANY($3::text[])
ArchiveMatch(f, client_id, frameworksToScan) ==
    /\ f.client_id = client_id
    /\ \E i \in 1..Len(frameworksToScan) : f.framework = frameworksToScan[i]

\* the SELECT list of the INSERT INTO findings_history
HistoryRow(f, complianceCheckId) ==
    [original_finding_id |-> f.id,
     client_id           |-> f.client_id,
     compliance_check_id |-> f.compliance_check_id,
     control_id          |-> f.control_id,
     framework           |-> f.framework,
     scan_status         |-> f.scan_status,
     remediation_status  |-> f.remediation_status,
     assigned_owner_id   |-> f.assigned_owner_id,
     notes               |-> f.notes,
     status_history      |-> f.status_history,
     ai_business_context |-> f.ai_business_context,
     ai_remediation_guidance |-> f.ai_remediation_guidance,
     archived_by_scan_id |-> complianceCheckId]

\* JavaScript's `x || null` on a string or null: the empty string is falsy
OrNull(x) == IF x = NULL \/ x = "" THEN NULL ELSE x

\* mutant: the persisted status wins over a fresh pass
RemediationStatus_persistedFirst(metadata, status) ==
    IF Len(metadata) > 0 /\ OrNull(metadata[1].remediation_status) # NULL
    THEN metadata[1].remediation_status
    ELSE IF status = "pass" THEN "resolved" ELSE "open"

\* remediation status of a fresh finding; `metadata` is metadataResult.rows,
\* of which the code takes rows[0]
RemediationStatus(metadata, status) ==
    IF Len(metadata) > 0 /\ OrNull(metadata[1].remediation_status) # NULL
    THEN IF status = "pass" THEN "resolved"
         ELSE metadata[1].remediation_status
    ELSE IF status = "fail" THEN "open"
         ELSE IF status = "pass" THEN "resolved" ELSE "open"

\* the rows of a table as a query returns them
RECURSIVE Rows(_)
Rows(S) ==
    IF S = {} THEN <<>>
    ELSE LET r == CHOOSE x \in S : TRUE IN <<r>> \o Rows(S \ {r})

\* SELECT ... FROM control_metadata WHERE client_id = $1 AND control_id = $2
MetadataRows(table, client_id, control_id) ==
    Rows({ m \in table : m.client_id = client_id /\ m.control_id = control_id })

\* mutant: the all-benchmarks-failed test is missing
FinalStatus_noneRunOnly(benchmarksRun, benchmarksFailed) ==
    IF benchmarksRun = 0 THEN "failed" ELSE "completed"

\* mutant: the no-benchmark-ran test is missing
FinalStatus_allFailedOnly(benchmarksRun, benchmarksFailed) ==
    IF benchmarksRun > 0 /\ benchmarksFailed = benchmarksRun THEN "failed"
    ELSE "completed"

\* the outcome decided after the credential x framework loops
FinalStatus(benchmarksRun, benchmarksFailed) ==
    IF benchmarksRun > 0 /\ benchmarksFailed = benchmarksRun THEN "failed"
    ELSE IF benchmarksRun = 0 THEN "failed"
    ELSE "completed"

\* ------------------------------------------------- the coverage verifier
\* the static table of expected control counts, a row for each entry
EXPECTED_CONTROL_RANGES ==
    { [provider |-> "aws", framework |-> "HIPAA", min |-> 130, max |-> 350],
      [provider |-> "aws", framework |-> "SOC2", min |-> 150, max |-> 250],
      [provider |-> "aws", framework |-> "ISO27001", min |-> 100, max |-> 200],
      [provider |-> "aws", framework |-> "CIS", min |-> 100, max |-> 200],
      [provider |-> "aws", framework |-> "NIST", min |-> 200, max |-> 400],
      [provider |-> "aws", framework |-> "PCI-DSS", min |-> 100, max |-> 200],
      [provider |-> "aws", framework |-> "GDPR", min |-> 80, max |-> 150],
      [provider |-> "aws", framework |-> "FedRAMP", min |-> 200, max |-> 400],
      [provider |-> "azure", framework |-> "HIPAA", min |-> 120, max |-> 300],
      [provider |-> "azure", framework |-> "SOC2", min |-> 120, max |-> 200],
      [provider |-> "azure", framework |-> "ISO27001", min |-> 80, max |-> 150],
      [provider |-> "azure", framework |-> "CIS", min |-> 80, max |-> 150],
      [provider |-> "azure", framework |-> "NIST", min |-> 150, max |-> 300],
      [provider |-> "azure", framework |-> "PCI-DSS", min |-> 80, max |-> 150],
      [provider |-> "gcp", framework |-> "HIPAA", min |-> 120, max |-> 300],
      [provider |-> "gcp", framework |-> "SOC2", min |-> 120, max |-> 200],
      [provider |-> "gcp", framework |-> "ISO27001", min |-> 80, max |-> 150],
      [provider |-> "gcp", framework |-> "CIS", min |-> 80, max |-> 150],
      [provider |-> "gcp", framework |-> "NIST", min |-> 150, max |-> 300] }

\* mutant: the threshold at the minimum itself
BelowMinThreshold_atMin(totalControls, range) == totalControls < range.min

\* totalControls < expectedRange.min * 0.8; the product is a whole number
\* in double arithmetic for every minimum of the table
BelowMinThreshold(totalControls, range) == 10 * totalControls < 8 * range.min

\* totalControls > expectedRange.max * 1.2; the product is a whole number
\* in double arithmetic for every maximum of the table
AboveMaxThreshold(totalControls, range) == 10 * totalControls > 12 * range.max

\* the warnings of the count check against an expected range
CountWarnings(totalControls, range) ==
    IF BelowMinThreshold(totalControls, range)
    THEN <<[warning |-> "significantly below expected range",
            count |-> totalControls]>>
    ELSE IF totalControls < range.min
    THEN <<[warning |-> "slightly below expected minimum",
            count |-> totalControls]>>
    ELSE IF AboveMaxThreshold(totalControls, range)
    THEN <<[warning |-> "significantly exceeds expected maximum",
            count |-> totalControls]>>
    ELSE <<>>

\* the number of controls of one derived status
CountStatus(allControls, status) ==
    Cardinality({ i \in 1..Len(allControls) : allControls[i].status = status })

\* the verification block of a result, given the entry of the table, if any
VerificationFor(range, totalControls, errorControls, permissionErrors) ==
    LET checked == Len(range) > 0
    IN  [control_count_valid |->
             ~(checked /\ BelowMinThreshold(totalControls, range[1])),
         expected_range |-> range,
         permission_issues_detected |-> permissionErrors > 0,
         warnings |->
             (IF checked THEN CountWarnings(totalControls, range[1])
                         ELSE <<>>) \o
             (IF permissionErrors > 0
              THEN <<[warning |-> "failed due to permission errors",
                      count |-> permissionErrors]>>
              ELSE <<>>) \o
             (IF 5 * errorControls > totalControls
              THEN <<[warning |-> "High error rate",
                      count |-> errorControls]>>
              ELSE <<>>)]

\* no verification has been made
NoVerification ==
    [control_count_valid |-> TRUE, expected_range |-> <<>>,
     permission_issues_detected |-> FALSE, warnings |-> <<>>]

\* the entry of the table for a pair of executeScan: the keys read off the
\* benchmark name of a pair that has one are the provider and the framework
\* of the pair
PairRange(provider, framework) ==
    Rows({ r \in EXPECTED_CONTROL_RANGES :
             r.provider = provider /\ r.framework = framework })

\* position after the pair (ci, fi) in `for credential { for framework }`
NextPair(ci, fi, frameworksToScan) ==
    IF fi < Len(frameworksToScan) THEN <<ci, fi + 1>> ELSE <<ci + 1, 1>>

Idle == [pc |-> "idle"]

\* -------------------------------------------------------------------- Init
InitStore(metadata) ==
    /\ now = 0
    /\ compliance_checks = <<>>
    /\ findings = {}
    /\ findings_history = {}
    /\ control_metadata = metadata
    /\ nextFindingId = 1
    /\ run = <<>>
    /\ getReq = Idle
    /\ listReq = Idle
    /\ putReq = Idle
    /\ edits = 0
    /\ ops = <<>>
    /\ invocations = {}
    /\ deleted_log = {}
    /\ written_log = {}
    /\ steampipe_config = NULL
    /\ responses = <<>>
    /\ postAnswer = <<>>

\* no engine output is being normalized
InitWith(metadata) ==
    /\ InitStore(metadata)
    /\ powerpipe = Idle

\* the store after the schema is created
Init == InitWith({})

\* the store with or without the rows migration 002 copied from findings
InitMerge == \E metadata \in {{}, MigratedMetadata} : InitWith(metadata)

\* ------------------------------------------------------------- the clock
Tick ==
    /\ now < MaxTicks * TickMs
    /\ now' = now + TickMs
    /\ UNCHANGED <<powerpipe, postAnswer, responses, compliance_checks, findings, findings_history,
                   control_metadata, nextFindingId, run, getReq, listReq,
                   putReq, edits, ops, invocations, deleted_log, written_log,
                   steampipe_config>>

\* ------------------------------------------------------- POST /api/scans
\* a handler that has answered nothing when the INSERT returns
CreatedResponse_awaited(complianceCheckId, client_id, frameworks, started_at) ==
    <<>>

\* res.status(201).json({...}): the body sent once the INSERT has returned
CreatedResponse(complianceCheckId, client_id, frameworks, started_at) ==
    << [id             |-> complianceCheckId,
        client_id      |-> client_id,
        frameworks     |-> frameworks,
        status         |-> "in_progress",
        total_controls |-> 0,
        started_at     |-> started_at,
        completed_at   |-> NULL] >>

\* `frameworks || clientFrameworks`: an array, also the empty one, is truthy
EffectiveFrameworks(data) ==
    IF "frameworks" \in DOMAIN data THEN data.frameworks
    ELSE assigned_frameworks(data.client_id)

\* mutant: the handler does not look at the number of active credentials
PostScanError_noCredentialCheck(data) ==
    IF data.client_id \notin Clients
    THEN <<[status |-> 404, error |-> "Client not found"]>>
    ELSE IF Len(EffectiveFrameworks(data)) = 0
    THEN <<[status |-> 400, error |-> "No frameworks assigned to client"]>>
    ELSE <<>>

\* the early returns of the handler, in the order of the code: the error
\* answered, if any
PostScanError(data) ==
    IF data.client_id \notin Clients
    THEN <<[status |-> 404, error |-> "Client not found"]>>
    ELSE IF Len(EffectiveFrameworks(data)) = 0
    THEN <<[status |-> 400, error |-> "No frameworks assigned to client"]>>
    ELSE IF Len(ActiveCredentials(data.client_id)) = 0
    THEN <<[status |-> 400,
            error |-> "No active credentials found for client"]>>
    ELSE <<>>

\* POST /api/scans answered by one of its early returns: the lookups read
\* the store and the handler returns before the INSERT
PostScanRejected(data) ==
    /\ PostScanError(data) # <<>>
    /\ postAnswer' = <<[data   |-> data,
                        status |-> PostScanError(data)[1].status,
                        error  |-> PostScanError(data)[1].error]>>
    /\ UNCHANGED <<powerpipe, responses, now, compliance_checks, findings,
                   findings_history, control_metadata, nextFindingId, run,
                   getReq, listReq, putReq, edits, ops, invocations,
                   deleted_log, written_log, steampipe_config>>

\* The three lookups and the INSERT INTO compliance_checks; the 404/400
\* answers leave the store as it is.
PostScan(data) ==
    LET client_id == data.client_id
        frameworksToScan ==
            IF "frameworks" \in DOMAIN data THEN data.frameworks
            ELSE assigned_frameworks(client_id)
    IN  /\ Len(compliance_checks) < MaxScans
        /\ PostScanError(data) = <<>>
        /\ compliance_checks' = Append(compliance_checks,
               [client_id      |-> client_id,
                frameworks     |-> frameworksToScan,
                status         |-> "in_progress",
                started_at     |-> now,
                total_controls |-> 0,
                passed_controls |-> 0,
                failed_controls |-> 0,
                error_controls |-> 0,
                skip_controls  |-> 0,
                powerpipe_output |-> <<>>])
        /\ run' = Append(run,
               [pc               |-> "created",
                client_id        |-> client_id,
                frameworksToScan |-> frameworksToScan,
                credentials      |-> ActiveCredentials(client_id),
                scanStartTime    |-> NoTime,
                ci               |-> 1,
                fi               |-> 1,
                benchmarksRun    |-> 0,
                benchmarksFailed |-> 0,
                totalControls    |-> 0,
                passedControls   |-> 0,
                failedControls   |-> 0,
                errorControls    |-> 0,
                skipControls     |-> 0,
                verificationWarnings |-> <<>>,
                verification     |-> NoVerification,
                result           |-> <<>>,
                k                |-> 1,
                metadata         |-> <<>>])
        /\ responses' = Append(responses,
               CreatedResponse(Len(compliance_checks) + 1, client_id,
                               frameworksToScan, now))
        /\ ops' = Append(ops, <<>>)
        /\ UNCHANGED <<powerpipe, postAnswer, now, findings, findings_history, control_metadata,
                       nextFindingId, getReq, listReq, putReq, edits, invocations,
                       deleted_log, written_log,
                   steampipe_config>>

\* ------------------------------------------------------------ executeScan
\* executeScan is entered synchronously once the INSERT has returned
ScanStart(s) ==
    /\ s \in ScanIds
    /\ run[s].pc = "created"
    /\ run' = [run EXCEPT ![s].pc = "precheck", ![s].scanStartTime = now]
    /\ UNCHANGED <<powerpipe, postAnswer, responses, now, compliance_checks, findings, findings_history,
                   control_metadata, nextFindingId, getReq, listReq, putReq, edits,
                   ops, invocations, deleted_log, written_log,
                   steampipe_config>>

\* SELECT started_at, then elapsed = Date.now() - startedAt
ScanPreCheck(s) ==
    /\ s \in ScanIds
    /\ run[s].pc = "precheck"
    /\ LET elapsed == now - compliance_checks[s].started_at
       IN  IF TimedOut(elapsed)
           THEN /\ compliance_checks' = TimeoutUpdate(compliance_checks, s)
                /\ run' = [run EXCEPT ![s].pc = "timed_out"]
                /\ ops' = [ops EXCEPT ![s] = Append(@, "timeout")]
           ELSE /\ run' = [run EXCEPT ![s].pc = "archive_copy"]
                /\ UNCHANGED <<compliance_checks, ops>>
    /\ UNCHANGED <<powerpipe, postAnswer, responses, now, findings, findings_history, control_metadata,
                   nextFindingId, getReq, listReq, putReq, edits, invocations,
                   deleted_log, written_log,
                   steampipe_config>>

\* INSERT INTO findings_history (...) SELECT ... FROM findings WHERE ...
ScanArchiveCopy(s) ==
    /\ s \in ScanIds
    /\ run[s].pc = "archive_copy"
    /\ findings_history' = findings_history \cup
           { HistoryRow(f, s) :
               f \in { g \in findings :
                         ArchiveMatch(g, run[s].client_id, run[s].frameworksToScan) } }
    /\ run' = [run EXCEPT ![s].pc = "archive_delete"]
    /\ ops' = [ops EXCEPT ![s] = Append(@, "copy")]
    /\ UNCHANGED <<powerpipe, postAnswer, responses, now, compliance_checks, findings, control_metadata,
                   nextFindingId, getReq, listReq, putReq, edits, invocations,
                   deleted_log, written_log,
                   steampipe_config>>

\* a DELETE that takes the archived copies of the tenant and frameworks with
\* the live rows
ScanArchiveDelete_withHistory(s) ==
    /\ s \in ScanIds
    /\ run[s].pc = "archive_delete"
    /\ LET gone == { g \in findings :
                       ArchiveMatch(g, run[s].client_id, run[s].frameworksToScan) }
       IN  /\ findings' = findings \ gone
           /\ deleted_log' = deleted_log \cup gone
    /\ findings_history' =
           { h \in findings_history :
               ~(/\ h.client_id = run[s].client_id
                 /\ \E i \in 1..Len(run[s].frameworksToScan) :
                        h.framework = run[s].frameworksToScan[i]) }
    /\ run' = [run EXCEPT ![s].pc = "loop"]
    /\ ops' = [ops EXCEPT ![s] = Append(@, "delete")]
    /\ UNCHANGED <<powerpipe, postAnswer, responses, now, compliance_checks, control_metadata,
                   nextFindingId, getReq, listReq, putReq, edits, invocations,
                   written_log,
                   steampipe_config>>

\* DELETE FROM findings WHERE client_id = $1 AND framework = ANY($2::text[])
ScanArchiveDelete(s) ==
    /\ s \in ScanIds
    /\ run[s].pc = "archive_delete"
    /\ LET gone == { g \in findings :
                       ArchiveMatch(g, run[s].client_id, run[s].frameworksToScan) }
       IN  /\ findings' = findings \ gone
           /\ deleted_log' = deleted_log \cup gone
    /\ run' = [run EXCEPT ![s].pc = "loop"]
    /\ ops' = [ops EXCEPT ![s] = Append(@, "delete")]
    /\ UNCHANGED <<powerpipe, postAnswer, responses, now, compliance_checks, findings_history, control_metadata,
                   nextFindingId, getReq, listReq, putReq, edits, invocations,
                   written_log,
                   steampipe_config>>

\* an iteration head whose timeout undoes what the scan wrote and archived
ScanLoop_rollback(s) ==
    /\ s \in ScanIds
    /\ run[s].pc = "loop"
    /\ run[s].ci <= Len(run[s].credentials)
    /\ LET elapsed == now - run[s].scanStartTime
           provider == run[s].credentials[run[s].ci]
           framework == run[s].frameworksToScan[run[s].fi]
           next == NextPair(run[s].ci, run[s].fi, run[s].frameworksToScan)
       IN  IF TimedOut(elapsed)
           THEN /\ compliance_checks' = TimeoutUpdate(compliance_checks, s)
                /\ run' = [run EXCEPT ![s].pc = "timed_out"]
                /\ ops' = [ops EXCEPT ![s] = Append(@, "timeout")]
                /\ findings' =
                       { f \in findings : f.compliance_check_id # s }
                /\ findings_history' =
                       { h \in findings_history : h.archived_by_scan_id # s }
           ELSE IF getBenchmarkName(framework, provider) = NULL
           THEN /\ run' = [run EXCEPT ![s].ci = next[1], ![s].fi = next[2]]
                /\ UNCHANGED <<compliance_checks, ops, findings,
                               findings_history>>
           ELSE /\ run' = [run EXCEPT ![s].pc = IF provider = "aws"
                                                THEN "configure"
                                                ELSE "invoke",
                                      ![s].benchmarksRun = @ + 1]
                /\ ops' = [ops EXCEPT ![s] = Append(@, "invoke")]
                /\ UNCHANGED <<compliance_checks, findings, findings_history>>
    /\ UNCHANGED <<powerpipe, postAnswer, responses, now, control_metadata,
                   nextFindingId, getReq, listReq, putReq, edits, invocations,
                   deleted_log, written_log,
                   steampipe_config>>

\* One iteration head of `for credential` / `for framework`: the elapsed-time
\* checks (both read the clock in the same synchronous stretch), then
\* getBenchmarkName; a pair without benchmark is skipped with `continue`,
\* otherwise benchmarksRun++ and runPowerpipeBenchmark is started, which for
\* provider aws first writes the connection config.
ScanLoop(s) ==
    /\ s \in ScanIds
    /\ run[s].pc = "loop"
    /\ run[s].ci <= Len(run[s].credentials)
    /\ LET elapsed == now - run[s].scanStartTime
           provider == run[s].credentials[run[s].ci]
           framework == run[s].frameworksToScan[run[s].fi]
           next == NextPair(run[s].ci, run[s].fi, run[s].frameworksToScan)
       IN  IF TimedOut(elapsed)
           THEN /\ compliance_checks' = TimeoutUpdate(compliance_checks, s)
                /\ run' = [run EXCEPT ![s].pc = "timed_out"]
                /\ ops' = [ops EXCEPT ![s] = Append(@, "timeout")]
           ELSE IF getBenchmarkName(framework, provider) = NULL
           THEN /\ run' = [run EXCEPT ![s].ci = next[1], ![s].fi = next[2]]
                /\ UNCHANGED <<compliance_checks, ops>>
           ELSE /\ run' = [run EXCEPT ![s].pc = IF provider = "aws"
                                                THEN "configure"
                                                ELSE "invoke",
                                      ![s].benchmarksRun = @ + 1]
                /\ ops' = [ops EXCEPT ![s] = Append(@, "invoke")]
                /\ UNCHANGED compliance_checks
    /\ UNCHANGED <<powerpipe, postAnswer, responses, now, findings, findings_history, control_metadata,
                   nextFindingId, getReq, listReq, putReq, edits, invocations,
                   deleted_log, written_log,
                   steampipe_config>>

\* mutant: the error of a pair is thrown on to the outer catch
PairFailed_rethrown(r) ==
    [r EXCEPT !.pc = "catch", !.benchmarksFailed = @ + 1,
              !.result = <<>>, !.k = 1, !.metadata = <<>>]

\* the per-pair catch block: benchmarksFailed++, go on with the next pair
PairFailed(r) ==
    LET next == NextPair(r.ci, r.fi, r.frameworksToScan)
    IN  [r EXCEPT !.pc = "loop", !.benchmarksFailed = @ + 1,
                  !.ci = next[1], !.fi = next[2],
                  !.result = <<>>, !.k = 1, !.metadata = <<>>]

\* the end of the try block of a pair: totalControls += result.controls.length
PairDone(r) ==
    LET next == NextPair(r.ci, r.fi, r.frameworksToScan)
        benchmarkName == getBenchmarkName(r.frameworksToScan[r.fi],
                                          r.credentials[r.ci])
        warnings == r.verification.warnings
    IN  [r EXCEPT !.pc = "loop", !.totalControls = @ + Len(r.result),
                  !.passedControls = @ + CountStatus(r.result, "pass"),
                  !.failedControls = @ + CountStatus(r.result, "fail"),
                  !.errorControls = @ + CountStatus(r.result, "error"),
                  !.skipControls = @ + CountStatus(r.result, "skip"),
                  !.verificationWarnings =
                      @ \o [i \in 1..Len(warnings) |->
                               [benchmark |-> benchmarkName,
                                warning   |-> warnings[i].warning,
                                count     |-> warnings[i].count]],
                  !.ci = next[1], !.fi = next[2],
                  !.result = <<>>, !.k = 1, !.metadata = <<>>]

\* runPowerpipeBenchmark, provider aws: the connection "aws" block with the
\* pair's credentials is written to the one aws.spc of the engine container and
\* the Steampipe service is restarted to load it
ScanConfigure(s) ==
    /\ s \in ScanIds
    /\ run[s].pc = "configure"
    /\ steampipe_config' = run[s].client_id
    /\ run' = [run EXCEPT ![s].pc = "invoke"]
    /\ UNCHANGED <<powerpipe, postAnswer, responses, now, compliance_checks, findings, findings_history,
                   control_metadata, nextFindingId, getReq, listReq, putReq, edits,
                   ops, invocations, deleted_log, written_log>>

\* one `powerpipe benchmark run`: the pair it was started for and, for
\* provider aws, the credentials the service has loaded when it evaluates
Invocation(s, ok, n, verification) ==
    [scan |-> s, ci |-> run[s].ci, fi |-> run[s].fi,
     control_count_valid |-> verification.control_count_valid,
     warnings |-> verification.warnings,
     framework |-> run[s].frameworksToScan[run[s].fi],
     provider |-> run[s].credentials[run[s].ci],
     evaluated_with |-> IF run[s].credentials[run[s].ci] = "aws"
                        THEN steampipe_config ELSE NULL,
     ok |-> ok, n |-> n]

\* runPowerpipeBenchmark throws (engine error, unparseable output)
ScanEngineThrow(s) ==
    /\ s \in ScanIds
    /\ run[s].pc = "invoke"
    /\ run' = [run EXCEPT ![s] = PairFailed(@)]
    /\ invocations' = invocations \cup {Invocation(s, FALSE, 0, NoVerification)}
    /\ UNCHANGED <<powerpipe, postAnswer, responses, now, compliance_checks, findings, findings_history,
                   control_metadata, nextFindingId, getReq, listReq, putReq, edits,
                   ops, deleted_log, written_log,
                   steampipe_config>>

\* the verification block of the result returned for the pair a run is at
\* (the controls of a scan carry no reason text: none is a permission error)
PairVerification(r, controls) ==
    VerificationFor(PairRange(r.credentials[r.ci], r.frameworksToScan[r.fi]),
                    Len(controls), CountStatus(controls, "error"), 0)

\* mutant: an invalid coverage verdict fails the pair
EngineReturned_invalidFails(r, controls) ==
    IF ~PairVerification(r, controls).control_count_valid
    THEN PairFailed(r)
    ELSE [r EXCEPT !.pc = "merge", !.result = controls, !.k = 1,
                   !.verification = PairVerification(r, controls)]

\* the run once runPowerpipeBenchmark has returned: the warnings and an
\* invalid verdict are logged, nothing else
EngineReturned(r, controls) ==
    IF Len(controls) = 0
    THEN PairDone([r EXCEPT !.verification = PairVerification(r, controls)])
    ELSE [r EXCEPT !.pc = "merge", !.result = controls, !.k = 1,
                   !.verification = PairVerification(r, controls)]

\* runPowerpipeBenchmark returns the normalized controls
ScanEngineReturn(s, controls) ==
    /\ s \in ScanIds
    /\ run[s].pc = "invoke"
    /\ run' = [run EXCEPT ![s] = EngineReturned(@, controls)]
    /\ invocations' =
          invocations \cup {Invocation(s, TRUE, Len(controls),
                                       PairVerification(run[s], controls))}
    /\ UNCHANGED <<powerpipe, postAnswer, responses, now, compliance_checks, findings, findings_history,
                   control_metadata, nextFindingId, getReq, listReq, putReq, edits,
                   ops, deleted_log, written_log,
                   steampipe_config>>

\* SELECT ... FROM control_metadata WHERE client_id = $1 AND control_id = $2
ScanMergeSelect(s) ==
    /\ s \in ScanIds
    /\ run[s].pc = "merge"
    /\ run' = [run EXCEPT ![s].pc = "insert",
                          ![s].metadata =
                              MetadataRows(control_metadata, run[s].client_id,
                                           run[s].result[run[s].k].control_id)]
    /\ UNCHANGED <<powerpipe, postAnswer, responses, now, compliance_checks, findings, findings_history,
                   control_metadata, nextFindingId, getReq, listReq, putReq, edits,
                   ops, invocations, deleted_log, written_log,
                   steampipe_config>>

\* a findings table without the unique index: no INSERT is refused
UniqueViolation_noIndex(rows, complianceCheckId, control_id) == FALSE

\* idx_findings_unique_control_per_scan ON findings(compliance_check_id, control_id)
UniqueViolation(rows, complianceCheckId, control_id) ==
    \E f \in rows : /\ f.compliance_check_id = complianceCheckId
                    /\ f.control_id = control_id

\* INSERT INTO findings (...) VALUES (...); a violation of the unique index
\* throws into the per-pair catch block
ScanInsertFinding(s) ==
    /\ s \in ScanIds
    /\ run[s].pc = "insert"
    /\ LET control == run[s].result[run[s].k]
           metadata == run[s].metadata
           row == [id                  |-> nextFindingId,
                   client_id           |-> run[s].client_id,
                   compliance_check_id |-> s,
                   control_id          |-> control.control_id,
                   framework           |-> run[s].frameworksToScan[run[s].fi],
                   scan_status         |-> control.status,
                   remediation_status  |->
                       RemediationStatus(metadata, control.status),
                   assigned_owner_id   |->
                       IF Len(metadata) = 0 THEN NULL
                       ELSE OrNull(metadata[1].assigned_owner_id),
                   notes               |->
                       IF Len(metadata) = 0 THEN NULL
                       ELSE OrNull(metadata[1].notes),
                   \* an array, also the empty one, is truthy
                   status_history      |->
                       IF Len(metadata) = 0 THEN <<>>
                       ELSE metadata[1].status_history,
                   ai_business_context |->
                       IF Len(metadata) = 0 THEN NULL
                       ELSE OrNull(metadata[1].ai_business_context),
                   ai_remediation_guidance |->
                       IF Len(metadata) = 0 THEN NULL
                       ELSE OrNull(metadata[1].ai_remediation_guidance)]
       IN  IF UniqueViolation(findings, s, control.control_id)
           THEN /\ run' = [run EXCEPT ![s] = PairFailed(@)]
                /\ UNCHANGED <<findings, nextFindingId, ops, written_log>>
           ELSE /\ findings' = findings \cup {row}
                /\ written_log' = written_log \cup {row}
                /\ nextFindingId' = nextFindingId + 1
                /\ ops' = [ops EXCEPT ![s] = Append(@, "insert")]
                /\ run' = [run EXCEPT ![s] =
                             IF run[s].k = Len(run[s].result) THEN PairDone(@)
                             ELSE [@ EXCEPT !.pc = "merge", !.k = @ + 1,
                                            !.metadata = <<>>]]
    /\ UNCHANGED <<powerpipe, postAnswer, responses, now, compliance_checks, findings_history, control_metadata,
                   getReq, listReq, putReq, edits, invocations, deleted_log,
                   steampipe_config>>

\* After the loops: the UPDATE that sets failed (all pairs failed, or none
\* ran) followed by a throw into the outer catch, or the UPDATE that sets
\* completed with the aggregates.
ScanFinalize(s) ==
    /\ s \in ScanIds
    /\ run[s].pc = "loop"
    /\ run[s].ci > Len(run[s].credentials)
    /\ LET status == FinalStatus(run[s].benchmarksRun, run[s].benchmarksFailed)
       IN  IF status = "failed"
           THEN /\ compliance_checks' = SetStatus(compliance_checks, s, "failed")
                /\ run' = [run EXCEPT ![s].pc = "catch"]
           ELSE /\ compliance_checks' =
                      [SetStatus(compliance_checks, s, "completed")
                          EXCEPT ![s].total_controls = run[s].totalControls,
                                 ![s].passed_controls = run[s].passedControls,
                                 ![s].failed_controls = run[s].failedControls,
                                 ![s].error_controls = run[s].errorControls,
                                 ![s].skip_controls = run[s].skipControls,
                                 ![s].powerpipe_output =
                                     <<[warnings |->
                                            run[s].verificationWarnings,
                                        warning_count |->
                                            Len(run[s].verificationWarnings)]>>]
                /\ run' = [run EXCEPT ![s].pc = "done"]
    /\ UNCHANGED <<powerpipe, postAnswer, responses, now, findings, findings_history, control_metadata,
                   nextFindingId, getReq, listReq, putReq, edits, ops, invocations,
                   deleted_log, written_log,
                   steampipe_config>>

\* the outer catch of executeScan: UPDATE ... SET status = 'failed'
ScanCatch(s) ==
    /\ s \in ScanIds
    /\ run[s].pc = "catch"
    /\ compliance_checks' = SetStatus(compliance_checks, s, "failed")
    /\ run' = [run EXCEPT ![s].pc = "done"]
    /\ UNCHANGED <<powerpipe, postAnswer, responses, now, findings, findings_history, control_metadata,
                   nextFindingId, getReq, listReq, putReq, edits, ops, invocations,
                   deleted_log, written_log,
                   steampipe_config>>

\* ------------------------------------------------- GET /api/scans/:id
\* SELECT * FROM compliance_checks WHERE id = $1
GetScanSelect(id) ==
    /\ getReq.pc = "idle"
    /\ id \in ScanIds
    /\ getReq' = [pc |-> "selected", id |-> id,
                  scan |-> [status     |-> compliance_checks[id].status,
                            started_at |-> compliance_checks[id].started_at]]
    /\ UNCHANGED <<powerpipe, postAnswer, responses, now, compliance_checks, findings, findings_history,
                   control_metadata, nextFindingId, run, listReq, putReq, edits, ops,
                   invocations, deleted_log, written_log,
                   steampipe_config>>

\* the timeout check on the row read before, and its UPDATE
GetScanSweep ==
    /\ getReq.pc = "selected"
    /\ IF /\ getReq.scan.status = "in_progress"
          /\ TimedOut(now - getReq.scan.started_at)
       THEN compliance_checks' =
                SetStatus(compliance_checks, getReq.id, "failed")
       ELSE UNCHANGED compliance_checks
    /\ getReq' = Idle
    /\ UNCHANGED <<powerpipe, postAnswer, responses, now, findings, findings_history, control_metadata,
                   nextFindingId, run, listReq, putReq, edits, ops, invocations,
                   deleted_log, written_log, steampipe_config>>

\* ----------------------------------------------------- GET /api/scans
\* SELECT * FROM compliance_checks WHERE 1=1 [AND client_id = $1]
ListScansSelect(query) ==
    /\ listReq.pc = "idle"
    /\ listReq' =
          [pc   |-> "selected",
           rows |-> { id \in ScanIds :
                        /\ "client_id" \in DOMAIN query
                              => compliance_checks[id].client_id = query.client_id
                        /\ compliance_checks[id].status = "in_progress" }]
    /\ UNCHANGED <<powerpipe, postAnswer, responses, now, compliance_checks, findings, findings_history,
                   control_metadata, nextFindingId, run, getReq, putReq, edits, ops,
                   invocations, deleted_log, written_log,
                   steampipe_config>>

\* const now = Date.now(); the rows found timed out get their UPDATE issued
ListScansCheck ==
    /\ listReq.pc = "selected"
    /\ LET timedOut == { id \in listReq.rows :
                           TimedOut(now - compliance_checks[id].started_at) }
       IN  listReq' = IF timedOut = {} THEN Idle
                      ELSE [pc |-> "updating", rows |-> timedOut]
    /\ UNCHANGED <<powerpipe, postAnswer, responses, now, compliance_checks, findings, findings_history,
                   control_metadata, nextFindingId, run, getReq, putReq, edits, ops,
                   invocations, deleted_log, written_log,
                   steampipe_config>>

\* one of the UPDATEs awaited by Promise.all lands
ListScansUpdate(id) ==
    /\ listReq.pc = "updating"
    /\ id \in listReq.rows
    /\ compliance_checks' = SetStatus(compliance_checks, id, "failed")
    /\ listReq' = IF listReq.rows = {id} THEN Idle
                  ELSE [listReq EXCEPT !.rows = @ \ {id}]
    /\ UNCHANGED <<powerpipe, postAnswer, responses, now, findings, findings_history, control_metadata,
                   nextFindingId, run, getReq, putReq, edits, ops, invocations,
                   deleted_log, written_log, steampipe_config>>

\* ------------------------------------------------ PUT /api/findings/:id
\* SELECT client_id, control_id, status_history FROM findings WHERE id = $1
\* (a body without any of the three fields is answered 400, an unknown id 404)
PutFindingSelect(id, data) ==
    /\ putReq.pc = "idle"
    /\ edits < MaxEdits
    /\ \E f \in findings :
          /\ f.id = id
          /\ putReq' = [pc |-> "selected", id |-> id, data |-> data,
                        client_id |-> f.client_id, control_id |-> f.control_id,
                        status_history |-> f.status_history,
                        \* history: the row as the SELECT found it
                        before |-> f]
    /\ edits' = edits + 1
    /\ UNCHANGED <<powerpipe, postAnswer, responses, now, compliance_checks, findings, findings_history,
                   control_metadata, nextFindingId, run, getReq, listReq, ops,
                   invocations, deleted_log, written_log, steampipe_config>>

\* history.push({status, changed_by, changed_at}) on finding.status_history,
\* an entry being modelled by its status
PushedHistory(status_history, data) ==
    IF "remediation_status" \in DOMAIN data
    THEN Append(status_history, data.remediation_status)
    ELSE status_history

\* the SET list built from the body
UpdatedFinding(f, data, history) ==
    [c \in DOMAIN f |->
        IF c \in DOMAIN data THEN data[c]
        ELSE IF c = "status_history" /\ "remediation_status" \in DOMAIN data
             THEN history
        ELSE f[c]]

\* UPDATE findings SET ... WHERE id = $n RETURNING *; the rows returned are
\* not looked at before the upsert
PutFindingUpdate ==
    /\ putReq.pc = "selected"
    /\ LET history == PushedHistory(putReq.status_history, putReq.data)
       IN  /\ findings' = { IF f.id = putReq.id
                            THEN UpdatedFinding(f, putReq.data, history)
                            ELSE f : f \in findings }
           /\ putReq' = [putReq EXCEPT !.pc = "updated",
                                       !.status_history = history]
    /\ UNCHANGED <<powerpipe, postAnswer, responses, now, compliance_checks, findings_history, control_metadata,
                   nextFindingId, run, getReq, listReq, edits, ops, invocations,
                   deleted_log, written_log, steampipe_config>>

\* the optional columns of a body in the order the handler pushes them
Given(data, c) == IF c \in DOMAIN data THEN <<c>> ELSE <<>>

\* metadataUpdates: the k-th entry stands for `<column> = $k`
metadataUpdates(data) ==
    (IF "remediation_status" \in DOMAIN data
     THEN <<"remediation_status", "status_history">> ELSE <<>>)
    \o Given(data, "assigned_owner_id") \o Given(data, "notes")

insertFields(data) ==
    <<"client_id", "control_id">>
    \o Given(data, "remediation_status") \o Given(data, "assigned_owner_id")
    \o Given(data, "notes")
    \o (IF "remediation_status" \in DOMAIN data
        THEN <<"status_history">> ELSE <<>>)

\* insertValues, the one parameter list of the statement: $k is its k-th entry
\* in the VALUES list and in the DO UPDATE SET clause alike
insertValues(req) ==
    [k \in 1..Len(insertFields(req.data)) |->
        LET c == insertFields(req.data)[k]
        IN  IF c = "client_id" THEN req.client_id
            ELSE IF c = "control_id" THEN req.control_id
            ELSE IF c = "status_history" THEN req.status_history
            ELSE req.data[c]]

\* column types of control_metadata
ColumnType(c) ==
    IF c \in {"client_id", "assigned_owner_id"} THEN "uuid"
    ELSE IF c \in {"control_id", "remediation_status"} THEN "varchar"
    ELSE IF c = "status_history" THEN "jsonb"
    ELSE "text"

\* the store's assignment coercion: a parameter takes the type of the VALUES
\* column it stands for; it can be assigned to a column of that type and, by
\* its text form, to a string column
AssignmentCast(from, to) == from = to \/ to \in {"varchar", "text"}

\* the statement passes the store's analysis
TypeChecks(data) ==
    \A k \in 1..Len(metadataUpdates(data)) :
        AssignmentCast(ColumnType(insertFields(data)[k]),
                       ColumnType(metadataUpdates(data)[k]))

\* assigned_owner_id UUID REFERENCES client_owners(id)
OwnerReferenceHolds(row) == row.assigned_owner_id \in Owners \cup {NULL}

\* INSERT INTO control_metadata (...) VALUES (...)
InsertedMetadata(req) ==
    LET F == insertFields(req.data)
        V == insertValues(req)
    IN  MetadataRow(req.client_id, req.control_id,
                    [c \in { F[k] : k \in 3..Len(F) } |->
                        V[CHOOSE k \in 3..Len(F) : F[k] = c]])

\* ON CONFLICT (client_id, control_id) DO UPDATE SET <column> = $k, ...
ConflictUpdatedMetadata(row, req) ==
    LET U == metadataUpdates(req.data)
        V == insertValues(req)
    IN  [c \in DOMAIN row |->
            IF \E k \in 1..Len(U) : U[k] = c
            THEN V[CHOOSE k \in 1..Len(U) : U[k] = c]
            ELSE row[c]]

\* INSERT INTO control_metadata ... ON CONFLICT (client_id, control_id) DO
\* UPDATE SET ...; a statement the store rejects leaves the table as it is
\* and the error goes to next(error)
PutFindingUpsert ==
    /\ putReq.pc = "updated"
    /\ LET existing == { m \in control_metadata :
                           /\ m.client_id = putReq.client_id
                           /\ m.control_id = putReq.control_id }
           written == IF existing = {}
                      THEN {InsertedMetadata(putReq)}
                      ELSE { ConflictUpdatedMetadata(m, putReq) : m \in existing }
       IN  IF /\ TypeChecks(putReq.data)
              /\ \A m \in written : OwnerReferenceHolds(m)
           THEN control_metadata' = (control_metadata \ existing) \cup written
           ELSE UNCHANGED control_metadata
    /\ putReq' = Idle
    /\ UNCHANGED <<powerpipe, postAnswer, responses, now, compliance_checks, findings, findings_history,
                   nextFindingId, run, getReq, listReq, edits, ops, invocations,
                   deleted_log, written_log, steampipe_config>>

\* ------------------------------------------------------- specifications
\* the scan requests of the edit specification: one tenant, one framework
EditScanRequests == { [client_id |-> "t1", frameworks |-> <<"HIPAA">>] }

ListQueries == { [all |-> TRUE], [client_id |-> "t1"] }

FindingUpdates == { [remediation_status |-> r] : r \in RemediationInputs }

ScanStepOn(s, results) ==
    \/ ScanStart(s)
    \/ ScanPreCheck(s)
    \/ ScanArchiveCopy(s)
    \/ ScanArchiveDelete(s)
    \/ ScanLoop(s)
    \/ ScanConfigure(s)
    \/ ScanEngineThrow(s)
    \/ \E controls \in results : ScanEngineReturn(s, controls)
    \/ ScanMergeSelect(s)
    \/ ScanInsertFinding(s)
    \/ ScanFinalize(s)
    \/ ScanCatch(s)

ScanStep(s) == ScanStepOn(s, EngineResults)

Active == { s \in ScanIds : run[s].pc \notin {"done", "timed_out"} }

\* the scan lifecycle under the wall clock and the two timeout sweeps, with at
\* most MaxActive background runs and one GET request in flight
Next ==
    \/ \E data \in ScanRequests :
          Cardinality(Active) < MaxActive /\ PostScan(data)
    \/ \E s \in ScanIds : ScanStep(s)
    \/ Tick
    \/ \E id \in ScanIds : listReq.pc = "idle" /\ GetScanSelect(id)
    \/ GetScanSweep
    \/ \E query \in ListQueries : getReq.pc = "idle" /\ ListScansSelect(query)
    \/ ListScansCheck
    \/ \E id \in ScanIds : ListScansUpdate(id)

Spec == Init /\ [][Next]_vars

\* concurrent scans against the findings store, the clock standing still
NextStore ==
    \/ \E data \in ScanRequests : PostScan(data)
    \/ \E s \in ScanIds : ScanStep(s)

SpecStore == Init /\ [][NextStore]_vars

\* the scans together with the remediation edits, the clock standing still
NextEdit ==
    \/ \E data \in EditScanRequests : PostScan(data)
    \/ \E s \in ScanIds : ScanStep(s)
    \/ \E id \in 1..(nextFindingId - 1), data \in FindingUpdates :
          PutFindingSelect(id, data)
    \/ PutFindingUpdate
    \/ PutFindingUpsert

SpecEdit == Init /\ [][NextEdit]_vars

\* engine results of the merge specification: every derived status
MergeEngineResults ==
    { <<Control("c1", st)>> : st \in {"fail", "error", "skip", "pass"} } \cup
    { <<Control("c2", "pass")>>, <<Control("c2", "fail")>> }

\* bodies of the merge specification: each field alone, empty notes and a
\* status together with notes
MergeUpdates ==
    { [remediation_status |-> "in_progress"],
      [assigned_owner_id |-> "o1"],
      [notes |-> "rotate the keys"],
      [notes |-> ""],
      [remediation_status |-> "resolved", notes |-> "rotate the keys"] }

\* scans one after the other, with the remediation edits, over a store with or
\* without migrated metadata, the clock standing still
NextMerge ==
    \/ \E data \in EditScanRequests :
          Cardinality(Active) < MaxActive /\ PostScan(data)
    \/ \E s \in ScanIds : ScanStepOn(s, MergeEngineResults)
    \/ \E id \in 1..(nextFindingId - 1), data \in MergeUpdates :
          PutFindingSelect(id, data)
    \/ PutFindingUpdate
    \/ PutFindingUpsert

SpecMerge == InitMerge /\ [][NextMerge]_vars

\* the same with every edit made between two scans: no request is started
\* while a scan runs, no scan while a request is in flight
NextMergeSeq ==
    \/ \E data \in EditScanRequests :
          /\ Cardinality(Active) < MaxActive
          /\ putReq.pc = "idle"
          /\ PostScan(data)
    \/ \E s \in ScanIds : ScanStepOn(s, MergeEngineResults)
    \/ \E id \in 1..(nextFindingId - 1), data \in MergeUpdates :
          Active = {} /\ PutFindingSelect(id, data)
    \/ PutFindingUpdate
    \/ PutFindingUpsert

SpecMergeSeq == InitMerge /\ [][NextMergeSeq]_vars

\* ------------------------------------------ a tenant without benchmark
\* Tenant t3 was scanned for GDPR while its aws credential was active; the
\* credential has since been deactivated and the one left, gcp, has no GDPR
\* benchmark.  The store holds the completed scan 1 and its findings.
PriorFinding(control, id) ==
    [id                  |-> id,
     client_id           |-> "t3",
     compliance_check_id |-> 1,
     control_id          |-> control.control_id,
     framework           |-> "GDPR",
     scan_status         |-> control.status,
     remediation_status  |-> RemediationStatus(<<>>, control.status),
     assigned_owner_id   |-> NULL,
     notes               |-> NULL,
     status_history      |-> <<>>,
     ai_business_context |-> NULL,
     ai_remediation_guidance |-> NULL]

\* executeScan of scan 1 at the last INSERT of its one pair (aws, GDPR)
PriorRun(controls) ==
    [pc               |-> "insert",
     client_id        |-> "t3",
     frameworksToScan |-> <<"GDPR">>,
     credentials      |-> <<"aws">>,
     scanStartTime    |-> 0,
     ci               |-> 1,
     fi               |-> 1,
     benchmarksRun    |-> 1,
     benchmarksFailed |-> 0,
     totalControls    |-> 0,
     passedControls   |-> 0,
     failedControls   |-> 0,
     errorControls    |-> 0,
     skipControls     |-> 0,
     verificationWarnings |-> <<>>,
     verification     |-> VerificationFor(PairRange("aws", "GDPR"),
                                          Len(controls),
                                          CountStatus(controls, "error"), 0),
     result           |-> controls,
     k                |-> Len(controls),
     metadata         |-> <<>>]

InitUnmapped ==
    \E controls \in EngineResults :
        LET ended == [PairDone(PriorRun(controls)) EXCEPT !.pc = "done"]
            written == { PriorFinding(controls[k], k) : k \in 1..Len(controls) }
        IN  /\ now = 0
            /\ compliance_checks =
                   << [client_id      |-> "t3",
                       frameworks     |-> <<"GDPR">>,
                       status         |-> "completed",
                       started_at     |-> 0,
                       total_controls |-> ended.totalControls,
                       passed_controls |-> ended.passedControls,
                       failed_controls |-> ended.failedControls,
                       error_controls |-> ended.errorControls,
                       skip_controls  |-> ended.skipControls,
                       powerpipe_output |->
                           <<[warnings |-> ended.verificationWarnings,
                              warning_count |->
                                  Len(ended.verificationWarnings)]>>] >>
            /\ findings = written
            /\ findings_history = {}
            /\ control_metadata = {}
            /\ nextFindingId = Len(controls) + 1
            /\ run = <<ended>>
            /\ getReq = Idle
            /\ listReq = Idle
            /\ putReq = Idle
            /\ edits = 0
            /\ ops = << <<"copy", "delete", "invoke">>
                        \o [k \in 1..Len(controls) |-> "insert"] >>
            /\ invocations =
                   { [scan |-> 1, ci |-> 1, fi |-> 1,
                      control_count_valid |->
                          PriorRun(controls).verification.control_count_valid,
                      warnings |-> PriorRun(controls).verification.warnings,
                      framework |-> "GDPR",
                      provider |-> "aws",
                      evaluated_with |-> "t3",
                      ok |-> TRUE, n |-> Len(controls)] }
            /\ deleted_log = {}
            /\ written_log = written
            /\ steampipe_config = "t3"
            /\ responses = <<CreatedResponse(1, "t3", <<"GDPR">>, 0)>>
            /\ postAnswer = <<>>
            /\ powerpipe = Idle

\* POST bodies for tenant t3: its assigned framework GDPR, for which it has
\* no benchmark now; HIPAA, for which it has one; both; and a body for
\* tenant t1, whose credential is aws
UnmappedScanRequests ==
    { [client_id |-> "t3"],
      [client_id |-> "t3", frameworks |-> <<"HIPAA">>],
      [client_id |-> "t3", frameworks |-> <<"GDPR", "HIPAA">>],
      [client_id |-> "t1", frameworks |-> <<"HIPAA">>] }

NextUnmapped ==
    \/ \E data \in UnmappedScanRequests : PostScan(data)
    \/ \E s \in ScanIds : ScanStep(s)

SpecUnmapped == InitUnmapped /\ [][NextUnmapped]_vars

\* ------------------------------------------------ requests refused
\* POST bodies that pass createScanSchema: those of ScanRequests, a tenant
\* the clients table does not hold, an empty `frameworks` array, and tenant
\* t4, which has no assigned framework and no active credential
PostRequests ==
    ScanRequests \cup
    { [client_id |-> "t0"],
      [client_id |-> "t1", frameworks |-> <<>>],
      [client_id |-> "t4"],
      [client_id |-> "t4", frameworks |-> <<"HIPAA">>] }

\* scans one at a time, among requests the handler refuses
NextPost ==
    \/ \E data \in PostRequests :
          Cardinality(Active) < MaxActive /\ PostScan(data)
    \/ \E data \in PostRequests : PostScanRejected(data)
    \/ \E s \in ScanIds : ScanStep(s)

SpecPost == Init /\ [][NextPost]_vars

\* ------------------------------------------------- store errors
\* A statement of executeScan is answered by the store with an error.  Thrown
\* from the metadata SELECT or the INSERT of a finding it lands in the catch
\* block of the pair; thrown from any other statement of the try block (the
\* started_at SELECT, the archive statements, the UPDATEs after the loops) it
\* lands in the outer catch block.
ScanStoreError(s) ==
    /\ s \in ScanIds
    /\ \/ /\ run[s].pc \in {"merge", "insert"}
          /\ run' = [run EXCEPT ![s] = PairFailed(@)]
       \/ /\ \/ run[s].pc \in {"precheck", "archive_copy", "archive_delete"}
             \/ run[s].pc = "loop" /\ run[s].ci > Len(run[s].credentials)
          /\ run' = [run EXCEPT ![s].pc = "catch"]
    /\ UNCHANGED <<powerpipe, postAnswer, responses, now, compliance_checks, findings,
                   findings_history, control_metadata, nextFindingId, getReq,
                   listReq, putReq, edits, ops, invocations, deleted_log,
                   written_log, steampipe_config>>

\* the UPDATE of the outer catch block is answered with an error: its own
\* .catch logs it and executeScan returns
ScanCatchError(s) ==
    /\ s \in ScanIds
    /\ run[s].pc = "catch"
    /\ run' = [run EXCEPT ![s].pc = "done"]
    /\ UNCHANGED <<powerpipe, postAnswer, responses, now, compliance_checks, findings,
                   findings_history, control_metadata, nextFindingId, getReq,
                   listReq, putReq, edits, ops, invocations, deleted_log,
                   written_log, steampipe_config>>

\* a step of the background run of scan s, its statements answered with a
\* result or with an error
ScanStepLive(s) ==
    \/ ScanStep(s)
    \/ ScanStoreError(s)
    \/ ScanCatchError(s)

\* scans one at a time over a store that may answer with errors, the clock
\* standing still
NextLive ==
    \/ \E data \in ScanRequests :
          Cardinality(Active) < MaxActive /\ PostScan(data)
    \/ \E s \in ScanIds : ScanStepLive(s)

\* every engine invocation and every store operation of a run returns: a run
\* that can take a step takes one
SpecLive ==
    /\ Init
    /\ [][NextLive]_vars
    /\ \A s \in 1..MaxScans : WF_vars(s \in ScanIds /\ ScanStepLive(s))

\* ------------------------------------------------------------- properties
TypeOK ==
    /\ now \in { i * TickMs : i \in 0..MaxTicks }
    /\ Len(compliance_checks) <= MaxScans
    /\ Len(run) = Len(compliance_checks)
    /\ Len(ops) = Len(compliance_checks)
    /\ \A s \in ScanIds :
          /\ compliance_checks[s].status \in {"in_progress", "completed", "failed"}
          /\ compliance_checks[s].client_id \in Clients
          /\ run[s].benchmarksFailed <= run[s].benchmarksRun
    /\ \A f \in findings : f.id < nextFindingId /\ f.compliance_check_id \in ScanIds
    /\ getReq.pc \in {"idle", "selected"}
    /\ listReq.pc \in {"idle", "selected", "updating"}
    /\ putReq.pc \in {"idle", "selected", "updated"}

RECURSIVE SumControls(_)
SumControls(V) ==
    IF V = {} THEN 0
    ELSE LET v == CHOOSE x \in V : TRUE IN v.n + SumControls(V \ {v})

\* the number of controls the engine returned to scan s for the framework
Normalized(s, framework) ==
    SumControls({ v \in invocations :
                    v.scan = s /\ v.framework = framework /\ v.ok })

\* the number of findings scan s has inserted for the framework
Written(s, framework) ==
    Cardinality({ w \in written_log :
                    w.compliance_check_id = s /\ w.framework = framework })

Live(client_id, framework) ==
    Cardinality({ f \in findings :
                    f.client_id = client_id /\ f.framework = framework })

\* the findings_history rows that reference scan s, for the framework
Archived(s, framework) ==
    Cardinality({ h \in findings_history :
                    h.compliance_check_id = s /\ h.framework = framework })

Status(s) == compliance_checks[s].status

Terminal(s) == Status(s) \in {"completed", "failed"}

Requested(s, framework) ==
    \E i \in 1..Len(compliance_checks[s].frameworks) :
        compliance_checks[s].frameworks[i] = framework

Finished(s) == run[s].pc \in {"done", "timed_out"}

\* C1: once a scan's status is completed or failed it never changes again,
\* under every interleaving of executeScan with the two timeout sweeps.
C1_TerminalIsFinal ==
    [][\A s \in ScanIds :
          Terminal(s) => compliance_checks'[s].status = Status(s)]_vars

\* C2: at most one scan per tenant is in_progress at any time.
C2_OneInProgressPerTenant ==
    \A s1, s2 \in ScanIds :
        /\ compliance_checks[s1].client_id = compliance_checks[s2].client_id
        /\ Status(s1) = "in_progress"
        /\ Status(s2) = "in_progress"
        => s1 = s2

\* the most recently started scan of the tenant that requested the framework
LatestScan(client_id, framework) ==
    LET S == { s \in ScanIds : /\ compliance_checks[s].client_id = client_id
                               /\ Requested(s, framework) }
    IN  CHOOSE s \in S : \A t \in S : t <= s

\* for each (tenant, framework) the live findings carry one single scan id
LiveFindingsOfOneScan ==
    \A f, g \in findings :
        f.client_id = g.client_id /\ f.framework = g.framework
        => f.compliance_check_id = g.compliance_check_id

\* C3: in every state, for each (tenant, framework) all live findings carry
\* the id of one single scan, the most recently started scan that requested
\* that framework for that tenant.
C3_LiveFindingsOfLatestScan ==
    /\ LiveFindingsOfOneScan
    /\ \A f \in findings :
          f.compliance_check_id = LatestScan(f.client_id, f.framework)

\* C4: every finding removed from the live table has exactly one
\* findings_history row, and that row equals the finding as it was when it
\* was deleted.
C4_ArchiveAtomic ==
    \A d \in deleted_log :
        LET H == { h \in findings_history : h.original_finding_id = d.id }
        IN  /\ Cardinality(H) = 1
            /\ \A h \in H : h = HistoryRow(d, h.archived_by_scan_id)

\* the operation the step adds to the log of scan s, if it adds one
Does(s, op) == ops'[s] = Append(ops[s], op)

\* the live findings a scan is asked to replace: its tenant's findings of a
\* framework in its requested set
InScope(f, s) ==
    /\ f.client_id = compliance_checks[s].client_id
    /\ Requested(s, f.framework)

\* C5: within one scan run, the copy of every existing finding matching
\* (tenant, framework in the requested set) into findings_history, tagged
\* with the new scan's id as archiver, and the deletion of those findings
\* both happen before the first new finding of that scan is inserted.
C5_ArchiveBeforeInsert ==
    /\ [](\A s \in ScanIds : \A i \in 1..Len(ops[s]) :
            ops[s][i] = "insert"
            => \E j, k \in 1..(i - 1) :
                  j < k /\ ops[s][j] = "copy" /\ ops[s][k] = "delete")
    /\ [][\A s \in ScanIds :
            /\ Does(s, "copy")
               => \A f \in findings : InScope(f, s)
                     => \E h \in findings_history' \ findings_history :
                           /\ h.original_finding_id = f.id
                           /\ h.archived_by_scan_id = s
                           /\ h.compliance_check_id = f.compliance_check_id
                           /\ h.remediation_status = f.remediation_status
            /\ Does(s, "delete")
               => \A f \in findings : InScope(f, s) => f \notin findings']_vars

\* C5 witness: a scan has inserted a finding after archiving another one
C5_Witness ==
    \E s \in ScanIds :
        /\ \E i \in 1..Len(ops[s]) : ops[s][i] = "insert"
        /\ \E h \in findings_history : h.archived_by_scan_id = s
        /\ \E d \in deleted_log : InScope(d, s)

\* s1 and s2 are the last two scans of one tenant that requested the framework
LastTwo(s1, s2, framework) ==
    /\ s1 < s2
    /\ compliance_checks[s1].client_id = compliance_checks[s2].client_id
    /\ Requested(s1, framework)
    /\ Requested(s2, framework)
    /\ \A s3 \in ScanIds :
          /\ compliance_checks[s3].client_id = compliance_checks[s1].client_id
          /\ Requested(s3, framework)
          => s3 <= s1 \/ s3 = s2

\* C6: after a second scan for the same (tenant, framework) has finished
\* (read in the claim's favour: has run to its end and stands completed), the
\* live findings of the pair number as many as the controls the second scan
\* normalized for it, and the findings_history rows that reference the first
\* scan number as many as the findings the first scan had written.
C6_CountsAfterSecondScan ==
    \A s1, s2 \in ScanIds : \A framework \in {"HIPAA", "GDPR"} :
        /\ LastTwo(s1, s2, framework)
        /\ Finished(s1)
        /\ run[s2].pc = "done"
        /\ Status(s2) = "completed"
        => /\ Live(compliance_checks[s2].client_id, framework)
                = Normalized(s2, framework)
           /\ Archived(s1, framework) = Written(s1, framework)

\* C7: the archive step of a scan leaves unchanged every live finding of
\* another tenant or of a framework outside the scan's requested set, and
\* adds no findings_history row for such a finding.
C7_ArchiveScoped ==
    [][\A s \in ScanIds :
          Does(s, "copy") \/ Does(s, "delete")
          => \A f \in findings :
                ~InScope(f, s)
                => /\ f \in findings'
                   /\ \A h \in findings_history' \ findings_history :
                         h.original_finding_id # f.id]_vars

\* C7 witness: a scan has archived and deleted findings of its scope while a
\* finding of another framework of the same tenant, written by an earlier
\* scan, is still live
C7_Witness ==
    \E s \in ScanIds :
        /\ \E i \in 1..Len(ops[s]) : ops[s][i] = "delete"
        /\ \E h \in findings_history : h.archived_by_scan_id = s
        /\ \E f \in findings :
              /\ f.client_id = compliance_checks[s].client_id
              /\ ~Requested(s, f.framework)
              /\ f.compliance_check_id < s

\* some engine invocation of scan s returned a result
SomeInvocationOk(s) == \E v \in invocations : v.scan = s /\ v.ok

\* C8: if every attempted (credential, framework) invocation of a scan
\* errors, the scan's final status is failed and it is never completed.
C8_AllErrorsFail ==
    \A s \in ScanIds :
        ~SomeInvocationOk(s)
        => /\ Status(s) # "completed"
           /\ Finished(s) => Status(s) = "failed"

\* C8 witness: a scan ran to the end of its loops with at least one
\* invocation attempted and all of them throwing
C8_Witness ==
    \E s \in ScanIds :
        /\ run[s].pc = "done"
        /\ \E v \in invocations : v.scan = s
        /\ ~SomeInvocationOk(s)
        /\ Status(s) = "failed"

C10_CheckpointsStopTheRun ==
    /\ [](\A s \in ScanIds :
            /\ Len(ops[s]) > 0
            /\ ops[s][Len(ops[s])] = "timeout"
            => Status(s) = "failed")
    /\ [][\A s \in ScanIds :
            /\ run[s].pc = "precheck" /\ run'[s].pc = "archive_copy"
               => now - compliance_checks[s].started_at <= MAX_SCAN_DURATION_MS
            /\ Does(s, "invoke")
               => now - run[s].scanStartTime <= MAX_SCAN_DURATION_MS
            /\ (\E i \in 1..Len(ops[s]) : ops[s][i] = "timeout")
               => /\ ops'[s] = ops[s]
                  /\ { f \in findings' : f.compliance_check_id = s }
                        \subseteq findings
                  /\ { h \in findings_history' : h.archived_by_scan_id = s }
                        \subseteq findings_history
                  /\ { v \in invocations' : v.scan = s } \subseteq invocations]_vars

\* C10 witness: a scan stopped by the check before a later pair, after an
\* earlier pair was invoked
C10_Witness ==
    \E s \in ScanIds :
        /\ run[s].pc = "timed_out"
        /\ Len(ops[s]) > 1
        /\ ops[s][Len(ops[s])] = "timeout"
        /\ \E i \in 1..Len(ops[s]) : ops[s][i] = "invoke"

\* the pairs of scan s that have a benchmark, as loop positions
BenchmarkPairs(s) ==
    { p \in (1..Len(run[s].credentials)) \X (1..Len(run[s].frameworksToScan)) :
        getBenchmarkName(run[s].frameworksToScan[p[2]],
                         run[s].credentials[p[1]]) # NULL }

\* loop position p comes before loop position q
Before(p, q) == p[1] < q[1] \/ (p[1] = q[1] /\ p[2] < q[2])

\* C11: the failure of one (credential, framework) pair is counted and the
\* run goes on at the next pair of the iteration order with the scan's status
\* untouched, never in the outer catch; a run that reached the end of its
\* loops has invoked the engine for every pair that has a benchmark.
C11_PairFailureContinues ==
    /\ [][\A s \in ScanIds :
            run'[s].benchmarksFailed # run[s].benchmarksFailed
            => /\ run'[s].benchmarksFailed = run[s].benchmarksFailed + 1
               /\ run'[s].pc = "loop"
               /\ <<run'[s].ci, run'[s].fi>> =
                     NextPair(run[s].ci, run[s].fi, run[s].frameworksToScan)
               /\ compliance_checks'[s] = compliance_checks[s]]_vars
    /\ [](\A s \in ScanIds :
            run[s].pc \in {"catch", "done"}
            => \A p \in BenchmarkPairs(s) :
                  \E v \in invocations :
                      v.scan = s /\ v.ci = p[1] /\ v.fi = p[2])

\* C11 witness: a run is over in which a pair failed and a later pair of the
\* iteration order was invoked and returned
C11_Witness ==
    \E s \in ScanIds :
        /\ run[s].pc = "done"
        /\ \E v, w \in invocations :
              /\ v.scan = s /\ w.scan = s
              /\ ~v.ok /\ w.ok
              /\ Before(<<v.ci, v.fi>>, <<w.ci, w.fi>>)

\* a checkpoint of executeScan has found scan s over its budget
CheckpointFired(s) == \E i \in 1..Len(ops[s]) : ops[s][i] = "timeout"

\* C12: a scan whose run is over, in which at least one pair went through
\* and no timeout checkpoint fired, stands completed, whatever became of its
\* other credentials and pairs.
C12_SuccessCompletes ==
    \A s \in ScanIds :
        /\ Finished(s)
        /\ run[s].benchmarksRun > run[s].benchmarksFailed
        /\ ~CheckpointFired(s)
        => Status(s) = "completed"

\* loop position p of scan s is a pair the benchmark table has no entry for
Unmapped(s, p) ==
    LET provider == run[s].credentials[p[1]]
        framework == run[s].frameworksToScan[p[2]]
    IN  \/ provider \notin DOMAIN FRAMEWORK_TO_BENCHMARK
        \/ framework \notin DOMAIN FRAMEWORK_TO_BENCHMARK[provider]

AllPairs(s) ==
    (1..Len(run[s].credentials)) \X (1..Len(run[s].frameworksToScan))

\* C13: a pair without benchmark is skipped: the step that meets it goes on
\* to the next pair and counts nothing, the engine is never invoked for it,
\* a run that reached the end of its loops has counted as attempted exactly
\* the pairs that have a benchmark, and such a run ends completed if one of
\* those went through.
C13_UnmappedPairSkipped ==
    /\ [][\A s \in ScanIds :
            /\ run[s].pc = "loop"
            /\ run'[s] # run[s]
            /\ run[s].ci <= Len(run[s].credentials)
            /\ Unmapped(s, <<run[s].ci, run[s].fi>>)
            /\ ~(now - run[s].scanStartTime > MAX_SCAN_DURATION_MS)
            => /\ run'[s] = [run[s] EXCEPT
                     !.ci = NextPair(run[s].ci, run[s].fi,
                                     run[s].frameworksToScan)[1],
                     !.fi = NextPair(run[s].ci, run[s].fi,
                                     run[s].frameworksToScan)[2]]
               /\ ops'[s] = ops[s]
               /\ compliance_checks'[s] = compliance_checks[s]]_vars
    /\ [](\A v \in invocations : ~Unmapped(v.scan, <<v.ci, v.fi>>))
    /\ [](\A s \in ScanIds :
            run[s].pc \in {"catch", "done"}
            => /\ run[s].benchmarksRun =
                     Cardinality({ p \in AllPairs(s) : ~Unmapped(s, p) })
               /\ run[s].benchmarksRun > run[s].benchmarksFailed
                     => run[s].pc = "done" /\ Status(s) = "completed")

\* C13 witness: a completed scan that had a pair without benchmark and one
\* pair attempted
C13_Witness ==
    \E s \in ScanIds :
        /\ run[s].pc = "done"
        /\ Status(s) = "completed"
        /\ \E p \in AllPairs(s) : Unmapped(s, p)
        /\ run[s].benchmarksRun = 1
        /\ run[s].benchmarksFailed = 0

\* the control_metadata rows stored for (tenant of scan s, control id)
Persisted(s, control_id) ==
    { m \in control_metadata :
        m.client_id = compliance_checks[s].client_id /\ m.control_id = control_id }

Replaces(f, d) ==
    /\ d.client_id = f.client_id
    /\ d.framework = f.framework
    /\ d.control_id = f.control_id
    /\ d.compliance_check_id = f.compliance_check_id - 1

\* C15: the fresh finding a scan writes for a control it re-reports carries
\* the owner, notes, status history and AI content of the finding it
\* replaces (empty notes counting as no notes), and its remediation status
\* when the control passed neither then nor now: the annotations survive the
\* archive-delete-recreate cycle.
C15_AnnotationsSurvive ==
    [][\A s \in ScanIds :
          Does(s, "insert")
          => \A f \in findings' \ findings : \A d \in deleted_log :
                Replaces(f, d)
                => /\ f.assigned_owner_id = d.assigned_owner_id
                   /\ OrNull(f.notes) = OrNull(d.notes)
                   /\ f.status_history = d.status_history
                   /\ f.ai_business_context = d.ai_business_context
                   /\ f.ai_remediation_guidance = d.ai_remediation_guidance
                   /\ f.scan_status # "pass" /\ d.scan_status # "pass"
                         => f.remediation_status = d.remediation_status]_vars

\* C16: when a PUT /api/findings/:id request is through, the control_metadata
\* row of the finding's (tenant, control id) holds, for every field of the
\* body, the value the live finding now has; this for a first edit and for
\* every later one.
C16_MetadataFollowsEdits ==
    [][putReq.pc = "updated" /\ putReq'.pc = "idle"
       => \A f \in findings' :
             f.id = putReq.id
             => \E m \in control_metadata' :
                   /\ m.client_id = f.client_id
                   /\ m.control_id = f.control_id
                   /\ \A c \in DOMAIN putReq.data : m[c] = f[c]]_vars

\* C17: every engine invocation for provider aws has evaluated with the
\* credentials of the tenant whose scan started it, under every interleaving
\* of scans.
C17_OwnCredentials ==
    \A v \in invocations :
        v.provider = "aws"
        => v.evaluated_with = compliance_checks[v.scan].client_id

\* ------------------------------------------------- the result normalizer
\* runPowerpipeBenchmark after JSON.parse: the recursive group tree of the
\* engine is flattened into one record per control id.  A JSON object is a
\* function on the keys it has; a value that may be null is a sequence of
\* at most one element.

\* control.control_id || ''
ControlId(control) ==
    IF "control_id" \in DOMAIN control THEN control.control_id ELSE ""

\* control.results && control.results.length > 0
HasResults(control) ==
    "results" \in DOMAIN control /\ Len(control.results) > 0

\* control.summary?.<key> > 0, false when the summary or the key is missing
SummaryPositive(control, key) ==
    /\ "summary" \in DOMAIN control
    /\ key \in DOMAIN control.summary
    /\ control.summary[key] > 0

\* mutant: the error count looked at before the alarm count
DerivedStatus_errorFirst(control) ==
    IF SummaryPositive(control, "error") THEN "error"
    ELSE IF SummaryPositive(control, "alarm") THEN "fail"
    ELSE IF SummaryPositive(control, "ok") THEN "pass"
    ELSE "skip"

\* the derived status of a raw control
DerivedStatus(control) ==
    IF SummaryPositive(control, "alarm") THEN "fail"
    ELSE IF SummaryPositive(control, "error") THEN "error"
    ELSE IF SummaryPositive(control, "ok") THEN "pass"
    ELSE "skip"

\* ------------------------------------------------------------------ text
\* A text is the sequence of its characters, so that toLowerCase and
\* includes are computed and not assumed.
UpperCaseLetters ==
    <<"A", "B", "C", "D", "E", "F", "G", "H", "I", "J", "K", "L", "M",
      "N", "O", "P", "Q", "R", "S", "T", "U", "V", "W", "X", "Y", "Z">>

LowerCaseLetters ==
    <<"a", "b", "c", "d", "e", "f", "g", "h", "i", "j", "k", "l", "m",
      "n", "o", "p", "q", "r", "s", "t", "u", "v", "w", "x", "y", "z">>

\* the lower-case form of a character
LowerCaseOf(char) ==
    IF \E j \in 1..Len(UpperCaseLetters) : UpperCaseLetters[j] = char
    THEN LowerCaseLetters[CHOOSE j \in 1..Len(UpperCaseLetters) :
                              UpperCaseLetters[j] = char]
    ELSE char

\* String.prototype.toLowerCase: the new string, character by character
toLowerCase(text) == <<>> \o [i \in 1..Len(text) |-> LowerCaseOf(text[i])]

\* String.prototype.includes
includes(text, keyword) ==
    \E i \in 0..(Len(text) - Len(keyword)) :
        \A j \in 1..Len(keyword) : text[i + j] = keyword[j]

\* the access-denial vocabulary of the normalizer
permissionErrorKeywords ==
    <<
      \* "accessdenied"
      <<"a", "c", "c", "e", "s", "s", "d", "e", "n", "i", "e", "d">>,
      \* "access denied"
      <<"a", "c", "c", "e", "s", "s", " ", "d", "e", "n", "i", "e", "d">>,
      \* "unauthorizedoperation"
      <<"u", "n", "a", "u", "t", "h", "o", "r", "i", "z", "e", "d", "o", "p",
      "e", "r", "a", "t", "i", "o", "n">>,
      \* "unauthorized operation"
      <<"u", "n", "a", "u", "t", "h", "o", "r", "i", "z", "e", "d", " ", "o",
      "p", "e", "r", "a", "t", "i", "o", "n">>,
      \* "invaliduserid.notfound"
      <<"i", "n", "v", "a", "l", "i", "d", "u", "s", "e", "r", "i", "d", ".",
      "n", "o", "t", "f", "o", "u", "n", "d">>,
      \* "accessdeniedexception"
      <<"a", "c", "c", "e", "s", "s", "d", "e", "n", "i", "e", "d", "e", "x",
      "c", "e", "p", "t", "i", "o", "n">>,
      \* "forbidden"
      <<"f", "o", "r", "b", "i", "d", "d", "e", "n">>,
      \* "insufficient permissions"
      <<"i", "n", "s", "u", "f", "f", "i", "c", "i", "e", "n", "t", " ", "p",
      "e", "r", "m", "i", "s", "s", "i", "o", "n", "s">>,
      \* "permission denied"
      <<"p", "e", "r", "m", "i", "s", "s", "i", "o", "n", " ", "d", "e", "n",
      "i", "e", "d">>,
      \* "user is not authorized"
      <<"u", "s", "e", "r", " ", "i", "s", " ", "n", "o", "t", " ", "a", "u",
      "t", "h", "o", "r", "i", "z", "e", "d">>,
      \* "not authorized to perform"
      <<"n", "o", "t", " ", "a", "u", "t", "h", "o", "r", "i", "z", "e", "d",
      " ", "t", "o", " ", "p", "e", "r", "f", "o", "r", "m">>,
      \* "unauthorized: access is denied"
      <<"u", "n", "a", "u", "t", "h", "o", "r", "i", "z", "e", "d", ":", " ",
      "a", "c", "c", "e", "s", "s", " ", "i", "s", " ", "d", "e", "n", "i",
      "e", "d">>
    >>

\* the words the error type is chosen by
KeywordText ==
    [\* "accessdenied"
     accessdenied |->
         <<"a", "c", "c", "e", "s", "s", "d", "e", "n", "i", "e", "d">>,
     \* "access denied"
     access_denied |->
         <<"a", "c", "c", "e", "s", "s", " ", "d", "e", "n", "i", "e", "d">>,
     \* "unauthorized"
     unauthorized |->
         <<"u", "n", "a", "u", "t", "h", "o", "r", "i", "z", "e", "d">>,
     \* "forbidden"
     forbidden |->
         <<"f", "o", "r", "b", "i", "d", "d", "e", "n">>]

\* the value of an expression that yields no value
Undefined == "undefined"

\* (control.results?.[0]?.reason || control.run_error || '').toLowerCase()
errorText(control) ==
    toLowerCase(IF /\ HasResults(control)
                   /\ "reason" \in DOMAIN control.results[1]
                   /\ control.results[1].reason # <<>>
                THEN control.results[1].reason
                ELSE IF "run_error" \in DOMAIN control
                     THEN control.run_error
                     ELSE <<>>)

\* permissionErrorKeywords.some(keyword => errorText.includes(keyword))
isPermissionErrorText(text) ==
    \E k \in 1..Len(permissionErrorKeywords) :
        includes(text, permissionErrorKeywords[k])

\* mutant: forbidden looked for before unauthorized
errorTypeOfText_forbiddenFirst(text) ==
    IF ~isPermissionErrorText(text) THEN Undefined
    ELSE IF \/ includes(text, KeywordText.accessdenied)
            \/ includes(text, KeywordText.access_denied)
         THEN "AccessDenied"
         ELSE IF includes(text, KeywordText.forbidden)
              THEN "Forbidden"
              ELSE IF includes(text, KeywordText.unauthorized)
                   THEN "UnauthorizedOperation"
                   ELSE "PermissionError"

\* the error type for an error text
errorTypeOfText(text) ==
    IF ~isPermissionErrorText(text) THEN Undefined
    ELSE IF \/ includes(text, KeywordText.accessdenied)
            \/ includes(text, KeywordText.access_denied)
         THEN "AccessDenied"
         ELSE IF includes(text, KeywordText.unauthorized)
              THEN "UnauthorizedOperation"
              ELSE IF includes(text, KeywordText.forbidden)
                   THEN "Forbidden"
                   ELSE "PermissionError"

\* control.results?.[0]?.reason || control.run_error || null: the text, if any
ControlReason(control) ==
    IF /\ HasResults(control)
       /\ "reason" \in DOMAIN control.results[1]
       /\ control.results[1].reason # <<>>
    THEN <<control.results[1].reason>>
    ELSE IF "run_error" \in DOMAIN control /\ control.run_error # <<>>
         THEN <<control.run_error>>
         ELSE <<>>

\* the record stored for a raw control
transformedControl(control) ==
    LET text == errorText(control)
    IN  [control_id       |-> ControlId(control),
         title            |-> IF "title" \in DOMAIN control
                              THEN control.title
                              ELSE "",
         status           |-> DerivedStatus(control),
         reason           |-> ControlReason(control),
         resources        |-> IF "results" \in DOMAIN control
                              THEN <<control.results>>
                              ELSE <<>>,
         permission_error |-> isPermissionErrorText(text),
         error_type       |-> errorTypeOfText(text)]

\* controlsMap, a Map in insertion order: the sequence of its values
MapHas(controlsMap, controlId) ==
    \E i \in 1..Len(controlsMap) : controlsMap[i].control_id = controlId

\* mutant: a plain array in place of the Map
MapSet_pushed(controlsMap, controlId, value) == Append(controlsMap, value)

\* Map.set: an existing key keeps its place, a new key goes last
MapSet(controlsMap, controlId, value) ==
    IF MapHas(controlsMap, controlId)
    THEN [i \in 1..Len(controlsMap) |->
             IF controlsMap[i].control_id = controlId
             THEN value
             ELSE controlsMap[i]]
    ELSE Append(controlsMap, value)

\* one iteration of the loop over item.controls
AddControl(controlsMap, control) ==
    LET controlId == ControlId(control)
    IN  IF controlId = ""
        THEN controlsMap
        ELSE IF ~MapHas(controlsMap, controlId) \/ HasResults(control)
             THEN MapSet(controlsMap, controlId, transformedControl(control))
             ELSE controlsMap

RECURSIVE AddControls(_, _, _)
\* the loop over item.controls, from its i-th element on
AddControls(controlsMap, controls, i) ==
    IF i > Len(controls)
    THEN controlsMap
    ELSE AddControls(AddControl(controlsMap, controls[i]), controls, i + 1)

RECURSIVE extractControls(_, _)
RECURSIVE ExtractGroups(_, _, _)
\* extractControls(item): the item's own controls, then its groups in order
extractControls(controlsMap, item) ==
    LET own == IF "controls" \in DOMAIN item
               THEN AddControls(controlsMap, item.controls, 1)
               ELSE controlsMap
    IN  IF "groups" \in DOMAIN item
        THEN ExtractGroups(own, item.groups, 1)
        ELSE own

\* the loop over item.groups, from its i-th element on
ExtractGroups(controlsMap, groups, i) ==
    IF i > Len(groups)
    THEN controlsMap
    ELSE ExtractGroups(extractControls(controlsMap, groups[i]), groups, i + 1)

\* ------------------------------- the coverage verifier: benchmark names
\* the words a framework and a provider are read off a benchmark name by
BenchmarkText ==
    [\* "hipaa"
     hipaa |->
         <<"h", "i", "p", "a", "a">>,
     \* "hipaa_security"
     hipaa_security |->
         <<"h", "i", "p", "a", "a", "_", "s", "e", "c", "u", "r", "i", "t",
         "y">>,
     \* "soc_2"
     soc_2 |->
         <<"s", "o", "c", "_", "2">>,
     \* "soc2"
     soc2 |->
         <<"s", "o", "c", "2">>,
     \* "iso_27001"
     iso_27001 |->
         <<"i", "s", "o", "_", "2", "7", "0", "0", "1">>,
     \* "iso27001"
     iso27001 |->
         <<"i", "s", "o", "2", "7", "0", "0", "1">>,
     \* "cis"
     cis |->
         <<"c", "i", "s">>,
     \* "nist"
     nist |->
         <<"n", "i", "s", "t">>,
     \* "pci_dss"
     pci_dss |->
         <<"p", "c", "i", "_", "d", "s", "s">>,
     \* "pci"
     pci |->
         <<"p", "c", "i">>,
     \* "gdpr"
     gdpr |->
         <<"g", "d", "p", "r">>,
     \* "fedramp"
     fedramp |->
         <<"f", "e", "d", "r", "a", "m", "p">>,
     \* "aws_compliance"
     aws_compliance |->
         <<"a", "w", "s", "_", "c", "o", "m", "p", "l", "i", "a", "n", "c",
         "e">>,
     \* "azure_compliance"
     azure_compliance |->
         <<"a", "z", "u", "r", "e", "_", "c", "o", "m", "p", "l", "i", "a",
         "n", "c", "e">>,
     \* "gcp_compliance"
     gcp_compliance |->
         <<"g", "c", "p", "_", "c", "o", "m", "p", "l", "i", "a", "n", "c",
         "e">>]

\* the benchmark names of FRAMEWORK_TO_BENCHMARK
MappedBenchmarks ==
    <<
      \* "aws_compliance.benchmark.hipaa_security_rule_2003"
      <<"a", "w", "s", "_", "c", "o", "m", "p", "l", "i", "a", "n", "c", "e",
      ".", "b", "e", "n", "c", "h", "m", "a", "r", "k", ".", "h", "i", "p",
      "a", "a", "_", "s", "e", "c", "u", "r", "i", "t", "y", "_", "r", "u",
      "l", "e", "_", "2", "0", "0", "3">>,
      \* "aws_compliance.benchmark.soc_2"
      <<"a", "w", "s", "_", "c", "o", "m", "p", "l", "i", "a", "n", "c", "e",
      ".", "b", "e", "n", "c", "h", "m", "a", "r", "k", ".", "s", "o", "c",
      "_", "2">>,
      \* "aws_compliance.benchmark.iso_27001"
      <<"a", "w", "s", "_", "c", "o", "m", "p", "l", "i", "a", "n", "c", "e",
      ".", "b", "e", "n", "c", "h", "m", "a", "r", "k", ".", "i", "s", "o",
      "_", "2", "7", "0", "0", "1">>,
      \* "aws_compliance.benchmark.cis_v140"
      <<"a", "w", "s", "_", "c", "o", "m", "p", "l", "i", "a", "n", "c", "e",
      ".", "b", "e", "n", "c", "h", "m", "a", "r", "k", ".", "c", "i", "s",
      "_", "v", "1", "4", "0">>,
      \* "aws_compliance.benchmark.nist_800_53_rev_5"
      <<"a", "w", "s", "_", "c", "o", "m", "p", "l", "i", "a", "n", "c", "e",
      ".", "b", "e", "n", "c", "h", "m", "a", "r", "k", ".", "n", "i", "s",
      "t", "_", "8", "0", "0", "_", "5", "3", "_", "r", "e", "v", "_", "5">>,
      \* "aws_compliance.benchmark.pci_dss_v321"
      <<"a", "w", "s", "_", "c", "o", "m", "p", "l", "i", "a", "n", "c", "e",
      ".", "b", "e", "n", "c", "h", "m", "a", "r", "k", ".", "p", "c", "i",
      "_", "d", "s", "s", "_", "v", "3", "2", "1">>,
      \* "aws_compliance.benchmark.gdpr"
      <<"a", "w", "s", "_", "c", "o", "m", "p", "l", "i", "a", "n", "c", "e",
      ".", "b", "e", "n", "c", "h", "m", "a", "r", "k", ".", "g", "d", "p",
      "r">>,
      \* "aws_compliance.benchmark.fedramp_moderate_rev_4"
      <<"a", "w", "s", "_", "c", "o", "m", "p", "l", "i", "a", "n", "c", "e",
      ".", "b", "e", "n", "c", "h", "m", "a", "r", "k", ".", "f", "e", "d",
      "r", "a", "m", "p", "_", "m", "o", "d", "e", "r", "a", "t", "e", "_",
      "r", "e", "v", "_", "4">>,
      \* "azure_compliance.benchmark.hipaa"
      <<"a", "z", "u", "r", "e", "_", "c", "o", "m", "p", "l", "i", "a", "n",
      "c", "e", ".", "b", "e", "n", "c", "h", "m", "a", "r", "k", ".", "h",
      "i", "p", "a", "a">>,
      \* "azure_compliance.benchmark.soc_2"
      <<"a", "z", "u", "r", "e", "_", "c", "o", "m", "p", "l", "i", "a", "n",
      "c", "e", ".", "b", "e", "n", "c", "h", "m", "a", "r", "k", ".", "s",
      "o", "c", "_", "2">>,
      \* "azure_compliance.benchmark.iso_27001"
      <<"a", "z", "u", "r", "e", "_", "c", "o", "m", "p", "l", "i", "a", "n",
      "c", "e", ".", "b", "e", "n", "c", "h", "m", "a", "r", "k", ".", "i",
      "s", "o", "_", "2", "7", "0", "0", "1">>,
      \* "azure_compliance.benchmark.cis_v200"
      <<"a", "z", "u", "r", "e", "_", "c", "o", "m", "p", "l", "i", "a", "n",
      "c", "e", ".", "b", "e", "n", "c", "h", "m", "a", "r", "k", ".", "c",
      "i", "s", "_", "v", "2", "0", "0">>,
      \* "azure_compliance.benchmark.nist_800_53_rev_5"
      <<"a", "z", "u", "r", "e", "_", "c", "o", "m", "p", "l", "i", "a", "n",
      "c", "e", ".", "b", "e", "n", "c", "h", "m", "a", "r", "k", ".", "n",
      "i", "s", "t", "_", "8", "0", "0", "_", "5", "3", "_", "r", "e", "v",
      "_", "5">>,
      \* "azure_compliance.benchmark.pci_dss_v321"
      <<"a", "z", "u", "r", "e", "_", "c", "o", "m", "p", "l", "i", "a", "n",
      "c", "e", ".", "b", "e", "n", "c", "h", "m", "a", "r", "k", ".", "p",
      "c", "i", "_", "d", "s", "s", "_", "v", "3", "2", "1">>,
      \* "gcp_compliance.benchmark.hipaa"
      <<"g", "c", "p", "_", "c", "o", "m", "p", "l", "i", "a", "n", "c", "e",
      ".", "b", "e", "n", "c", "h", "m", "a", "r", "k", ".", "h", "i", "p",
      "a", "a">>,
      \* "gcp_compliance.benchmark.soc_2"
      <<"g", "c", "p", "_", "c", "o", "m", "p", "l", "i", "a", "n", "c", "e",
      ".", "b", "e", "n", "c", "h", "m", "a", "r", "k", ".", "s", "o", "c",
      "_", "2">>,
      \* "gcp_compliance.benchmark.iso_27001"
      <<"g", "c", "p", "_", "c", "o", "m", "p", "l", "i", "a", "n", "c", "e",
      ".", "b", "e", "n", "c", "h", "m", "a", "r", "k", ".", "i", "s", "o",
      "_", "2", "7", "0", "0", "1">>,
      \* "gcp_compliance.benchmark.cis_v200"
      <<"g", "c", "p", "_", "c", "o", "m", "p", "l", "i", "a", "n", "c", "e",
      ".", "b", "e", "n", "c", "h", "m", "a", "r", "k", ".", "c", "i", "s",
      "_", "v", "2", "0", "0">>,
      \* "gcp_compliance.benchmark.nist_800_53_rev_5"
      <<"g", "c", "p", "_", "c", "o", "m", "p", "l", "i", "a", "n", "c", "e",
      ".", "b", "e", "n", "c", "h", "m", "a", "r", "k", ".", "n", "i", "s",
      "t", "_", "8", "0", "0", "_", "5", "3", "_", "r", "e", "v", "_", "5">>
    >>

\* benchmark names of the engine that FRAMEWORK_TO_BENCHMARK does not hold
OtherBenchmarks ==
    <<
      \* "azure_compliance.benchmark.gdpr"
      <<"a", "z", "u", "r", "e", "_", "c", "o", "m", "p", "l", "i", "a", "n",
      "c", "e", ".", "b", "e", "n", "c", "h", "m", "a", "r", "k", ".", "g",
      "d", "p", "r">>,
      \* "gcp_compliance.benchmark.pci_dss_v321"
      <<"g", "c", "p", "_", "c", "o", "m", "p", "l", "i", "a", "n", "c", "e",
      ".", "b", "e", "n", "c", "h", "m", "a", "r", "k", ".", "p", "c", "i",
      "_", "d", "s", "s", "_", "v", "3", "2", "1">>,
      \* "gcp_compliance.benchmark.fedramp_moderate_rev_4"
      <<"g", "c", "p", "_", "c", "o", "m", "p", "l", "i", "a", "n", "c", "e",
      ".", "b", "e", "n", "c", "h", "m", "a", "r", "k", ".", "f", "e", "d",
      "r", "a", "m", "p", "_", "m", "o", "d", "e", "r", "a", "t", "e", "_",
      "r", "e", "v", "_", "4">>,
      \* "oci_compliance.benchmark.hipaa"
      <<"o", "c", "i", "_", "c", "o", "m", "p", "l", "i", "a", "n", "c", "e",
      ".", "b", "e", "n", "c", "h", "m", "a", "r", "k", ".", "h", "i", "p",
      "a", "a">>,
      \* "aws_compliance.benchmark.foundational_security"
      <<"a", "w", "s", "_", "c", "o", "m", "p", "l", "i", "a", "n", "c", "e",
      ".", "b", "e", "n", "c", "h", "m", "a", "r", "k", ".", "f", "o", "u",
      "n", "d", "a", "t", "i", "o", "n", "a", "l", "_", "s", "e", "c", "u",
      "r", "i", "t", "y">>,
      \* "aws_thrifty.benchmark.s3"
      <<"a", "w", "s", "_", "t", "h", "r", "i", "f", "t", "y", ".", "b", "e",
      "n", "c", "h", "m", "a", "r", "k", ".", "s", "3">>
    >>

\* the benchmark names runPowerpipeBenchmark is called with
BenchmarkNames ==
    { MappedBenchmarks[i] : i \in 1..Len(MappedBenchmarks) } \cup
    { OtherBenchmarks[i] : i \in 1..Len(OtherBenchmarks) }

\* the framework read off the lower-cased benchmark name
frameworkKey(benchmarkName) ==
    LET benchmarkLower == toLowerCase(benchmarkName)
    IN  IF \/ includes(benchmarkLower, BenchmarkText.hipaa)
           \/ includes(benchmarkLower, BenchmarkText.hipaa_security)
        THEN "HIPAA"
        ELSE IF \/ includes(benchmarkLower, BenchmarkText.soc_2)
                \/ includes(benchmarkLower, BenchmarkText.soc2)
        THEN "SOC2"
        ELSE IF \/ includes(benchmarkLower, BenchmarkText.iso_27001)
                \/ includes(benchmarkLower, BenchmarkText.iso27001)
        THEN "ISO27001"
        ELSE IF includes(benchmarkLower, BenchmarkText.cis)
        THEN "CIS"
        ELSE IF includes(benchmarkLower, BenchmarkText.nist)
        THEN "NIST"
        ELSE IF \/ includes(benchmarkLower, BenchmarkText.pci_dss)
                \/ includes(benchmarkLower, BenchmarkText.pci)
        THEN "PCI-DSS"
        ELSE IF includes(benchmarkLower, BenchmarkText.gdpr)
        THEN "GDPR"
        ELSE IF includes(benchmarkLower, BenchmarkText.fedramp)
        THEN "FedRAMP"
        ELSE NULL

\* the provider read off the benchmark name
providerKey(benchmarkName) ==
    IF includes(benchmarkName, BenchmarkText.aws_compliance) THEN "aws"
    ELSE IF includes(benchmarkName, BenchmarkText.azure_compliance) THEN "azure"
    ELSE IF includes(benchmarkName, BenchmarkText.gcp_compliance) THEN "gcp"
    ELSE NULL

\* mutant: the count checked against a range although the table has none
expectedRange_hipaaDefault(benchmarkName) ==
    <<[provider |-> "aws", framework |-> "HIPAA", min |-> 130, max |-> 350]>>

\* EXPECTED_CONTROL_RANGES[providerKey]?.[frameworkKey]: the entry, if any
expectedRange(benchmarkName) ==
    LET framework == frameworkKey(benchmarkName)
        provider == providerKey(benchmarkName)
    IN  IF framework = NULL \/ provider = NULL
        THEN <<>>
        ELSE Rows({ r \in EXPECTED_CONTROL_RANGES :
                      r.provider = provider /\ r.framework = framework })

\* the verification block of the returned result
Verification(benchmarkName, totalControls, errorControls, permissionErrors) ==
    VerificationFor(expectedRange(benchmarkName), totalControls,
                    errorControls, permissionErrors)

\* the number of controls flagged as permission errors
CountPermissionErrors(allControls) ==
    Cardinality({ i \in 1..Len(allControls) :
                      allControls[i].permission_error })

\* what runPowerpipeBenchmark returns for a parsed result, or that it throws
\* (the parsed results here are group trees without the top-level keys
\* "benchmark" and "results" of the two fallback formats)
PowerpipeResult(benchmarkName, result) ==
    LET allControls == extractControls(<<>>, result)
    IN  IF Len(allControls) > 0
        THEN [pc            |-> "returned",
              benchmarkName |-> benchmarkName,
              result        |-> result,
              controls      |-> allControls,
              summary       |->
                  [total  |-> Len(allControls),
                   passed |-> CountStatus(allControls, "pass"),
                   failed |-> CountStatus(allControls, "fail"),
                   error  |-> CountStatus(allControls, "error"),
                   skip   |-> CountStatus(allControls, "skip"),
                   permission_errors |-> CountPermissionErrors(allControls)],
              verification  |->
                  Verification(benchmarkName, Len(allControls),
                               CountStatus(allControls, "error"),
                               CountPermissionErrors(allControls))]
        ELSE [pc            |-> "thrown",
              benchmarkName |-> benchmarkName,
              result        |-> result,
              controls      |-> <<>>,
              summary       |-> [total |-> 0, passed |-> 0, failed |-> 0,
                                 error |-> 0, skip |-> 0,
                                 permission_errors |-> 0],
              verification  |-> NoVerification]

\* the parsed result is normalized and verified and runPowerpipeBenchmark
\* ends
Normalize ==
    /\ powerpipe.pc = "parsed"
    /\ powerpipe' = PowerpipeResult(powerpipe.benchmarkName, powerpipe.result)
    /\ UNCHANGED <<postAnswer, responses, now, compliance_checks, findings, findings_history,
                   control_metadata, nextFindingId, run, getReq, listReq,
                   putReq, edits, ops, invocations, deleted_log, written_log,
                   steampipe_config>>

\* the controls are counted (no tree of this size is built here): the
\* counts are verified and runPowerpipeBenchmark ends
Verify ==
    /\ powerpipe.pc = "counted"
    /\ powerpipe' =
          [powerpipe EXCEPT
              !.pc = IF powerpipe.totalControls > 0 THEN "returned"
                                                    ELSE "thrown",
              !.verification =
                  Verification(powerpipe.benchmarkName,
                               powerpipe.totalControls,
                               powerpipe.errorControls,
                               powerpipe.permissionErrors)]
    /\ UNCHANGED <<postAnswer, responses, now, compliance_checks, findings, findings_history,
                   control_metadata, nextFindingId, run, getReq, listReq,
                   putReq, edits, ops, invocations, deleted_log, written_log,
                   steampipe_config>>

\* texts of the engine: a reason, a run error, the start and the end of a
\* longer message, and a reason that names an access denial
ReportText ==
    [\* "bucket is public"
     bucket_is_public |->
         <<"b", "u", "c", "k", "e", "t", " ", "i", "s", " ", "p", "u", "b",
         "l", "i", "c">>,
     \* "timeout"
     timeout |->
         <<"t", "i", "m", "e", "o", "u", "t">>,
     \* "Error: "
     ErrorPrefix |->
         <<"E", "r", "r", "o", "r", ":", " ">>,
     \* " on s3"
     OnSuffix |->
         <<" ", "o", "n", " ", "s", "3">>,
     \* "AccessDenied: user is not authorized"
     AccessDeniedExample |->
         <<"A", "c", "c", "e", "s", "s", "D", "e", "n", "i", "e", "d", ":",
         " ", "u", "s", "e", "r", " ", "i", "s", " ", "n", "o", "t", " ",
         "a", "u", "t", "h", "o", "r", "i", "z", "e", "d">>]

\* the engine's rows of evidence for a control
Evidence == <<[reason |-> ReportText.bucket_is_public, status |-> "alarm"]>>

\* the raw controls the engine may report at the k-th place of its output;
\* the title tells the places apart
RawControls(k) ==
    LET t == ToString(k)
    IN  { [control_id |-> "c1", title |-> t],
          [control_id |-> "c1", title |-> t, results |-> <<>>,
           summary |-> <<>>],
          [control_id |-> "c1", title |-> t, results |-> <<>>,
           summary |-> [alarm |-> 0, error |-> 0, ok |-> 0]],
          [control_id |-> "c1", title |-> t, results |-> Evidence,
           summary |-> [alarm |-> 1, ok |-> 3]],
          [control_id |-> "c1", title |-> t, results |-> Evidence,
           summary |-> [error |-> 1, ok |-> 2]],
          [control_id |-> "c1", title |-> t, results |-> Evidence,
           summary |-> [ok |-> 5]],
          [control_id |-> "c1", title |-> t, results |-> <<>>,
           run_error |-> ReportText.timeout, summary |-> [alarm |-> 1, error |-> 1]],
          [control_id |-> "c2", title |-> t, results |-> Evidence,
           summary |-> [ok |-> 5]],
          [control_id |-> "c2", title |-> t,
           summary |-> [alarm |-> 1, ok |-> 3]],
          [control_id |-> "", title |-> t, results |-> Evidence,
           summary |-> [alarm |-> 1, ok |-> 3]],
          [title |-> t, results |-> Evidence, summary |-> [ok |-> 5]] }

RECURSIVE RawSequencesOf(_)
\* the sequences of n raw controls, one for each place
RawSequencesOf(n) ==
    IF n = 0
    THEN { <<>> }
    ELSE { Append(occs, control) :
               occs \in RawSequencesOf(n - 1), control \in RawControls(n) }

RECURSIVE Chain(_, _)
\* each control in a group nested in the group of the one before
Chain(occs, i) ==
    IF i = Len(occs)
    THEN [controls |-> <<occs[i]>>]
    ELSE [controls |-> <<occs[i]>>, groups |-> <<Chain(occs, i + 1)>>]

\* the ways the engine may arrange a sequence of raw controls in groups
Arrangements == { "side by side", "one group", "nested", "under the root" }

\* the group tree the engine prints for a sequence of raw controls
GroupTree(arrangement, occs) ==
    CASE arrangement = "side by side" ->
             [groups |-> [i \in 1..Len(occs) |-> [controls |-> <<occs[i]>>,
                                                  groups |-> <<>>]]]
      [] arrangement = "one group" ->
             [groups |-> <<[controls |-> occs]>>]
      [] arrangement = "nested" ->
             [groups |-> <<Chain(occs, 1)>>]
      \* a control of the root, a group holding only a group, and the
      \* remaining controls in groups side by side
      [] arrangement = "under the root" ->
             [controls |-> <<occs[1]>>,
              groups |-> <<[groups |-> <<[controls |-> Tail(occs)]>>]>> \o
                         [i \in 1..(Len(occs) - 1) |->
                             [controls |-> <<occs[i + 1]>>]]]

\* what the engine may report as the reason or the run error of a control
ReasonPhrases ==
    <<
      \* "AccessDenied"
      <<"A", "c", "c", "e", "s", "s", "D", "e", "n", "i", "e", "d">>,
      \* "Access Denied"
      <<"A", "c", "c", "e", "s", "s", " ", "D", "e", "n", "i", "e", "d">>,
      \* "UnauthorizedOperation"
      <<"U", "n", "a", "u", "t", "h", "o", "r", "i", "z", "e", "d", "O", "p",
      "e", "r", "a", "t", "i", "o", "n">>,
      \* "Unauthorized operation"
      <<"U", "n", "a", "u", "t", "h", "o", "r", "i", "z", "e", "d", " ", "o",
      "p", "e", "r", "a", "t", "i", "o", "n">>,
      \* "InvalidUserID.NotFound"
      <<"I", "n", "v", "a", "l", "i", "d", "U", "s", "e", "r", "I", "D", ".",
      "N", "o", "t", "F", "o", "u", "n", "d">>,
      \* "AccessDeniedException"
      <<"A", "c", "c", "e", "s", "s", "D", "e", "n", "i", "e", "d", "E", "x",
      "c", "e", "p", "t", "i", "o", "n">>,
      \* "Forbidden"
      <<"F", "o", "r", "b", "i", "d", "d", "e", "n">>,
      \* "Insufficient permissions"
      <<"I", "n", "s", "u", "f", "f", "i", "c", "i", "e", "n", "t", " ", "p",
      "e", "r", "m", "i", "s", "s", "i", "o", "n", "s">>,
      \* "Permission denied"
      <<"P", "e", "r", "m", "i", "s", "s", "i", "o", "n", " ", "d", "e", "n",
      "i", "e", "d">>,
      \* "User is not authorized"
      <<"U", "s", "e", "r", " ", "i", "s", " ", "n", "o", "t", " ", "a", "u",
      "t", "h", "o", "r", "i", "z", "e", "d">>,
      \* "not authorized to perform"
      <<"n", "o", "t", " ", "a", "u", "t", "h", "o", "r", "i", "z", "e", "d",
      " ", "t", "o", " ", "p", "e", "r", "f", "o", "r", "m">>,
      \* "Unauthorized: access is denied"
      <<"U", "n", "a", "u", "t", "h", "o", "r", "i", "z", "e", "d", ":", " ",
      "a", "c", "c", "e", "s", "s", " ", "i", "s", " ", "d", "e", "n", "i",
      "e", "d">>,
      \* "Unauthorized"
      <<"U", "n", "a", "u", "t", "h", "o", "r", "i", "z", "e", "d">>,
      \* "AccessDenied: user is not authorized"
      <<"A", "c", "c", "e", "s", "s", "D", "e", "n", "i", "e", "d", ":", " ",
      "u", "s", "e", "r", " ", "i", "s", " ", "n", "o", "t", " ", "a", "u",
      "t", "h", "o", "r", "i", "z", "e", "d">>,
      \* "Unauthorized operation: Forbidden"
      <<"U", "n", "a", "u", "t", "h", "o", "r", "i", "z", "e", "d", " ", "o",
      "p", "e", "r", "a", "t", "i", "o", "n", ":", " ", "F", "o", "r", "b",
      "i", "d", "d", "e", "n">>,
      \* "403 Forbidden: access denied"
      <<"4", "0", "3", " ", "F", "o", "r", "b", "i", "d", "d", "e", "n", ":",
      " ", "a", "c", "c", "e", "s", "s", " ", "d", "e", "n", "i", "e", "d">>,
      \* "FORBIDDEN"
      <<"F", "O", "R", "B", "I", "D", "D", "E", "N">>,
      \* "bucket is public"
      <<"b", "u", "c", "k", "e", "t", " ", "i", "s", " ", "p", "u", "b", "l",
      "i", "c">>,
      \* "timeout"
      <<"t", "i", "m", "e", "o", "u", "t">>,
      \* "denied access"
      <<"d", "e", "n", "i", "e", "d", " ", "a", "c", "c", "e", "s", "s">>,
      \* "not authorized"
      <<"n", "o", "t", " ", "a", "u", "t", "h", "o", "r", "i", "z", "e",
      "d">>,
      \* ""
      <<>>
    >>

\* the reported texts: a phrase, alone or inside a longer message
ReasonTexts ==
    { prefix \o ReasonPhrases[i] \o suffix :
          i \in 1..Len(ReasonPhrases),
          prefix \in { <<>>, ReportText.ErrorPrefix },
          suffix \in { <<>>, ReportText.OnSuffix } }

\* a raw control that reports a text as the reason of its first result, as
\* its run error, or as both
ReportingControls ==
    { [control_id |-> "c1", title |-> "1", summary |-> [error |-> 1],
       results |-> <<[reason |-> text, status |-> "error"]>>] :
          text \in ReasonTexts } \cup
    { [control_id |-> "c1", title |-> "1", summary |-> [error |-> 1],
       run_error |-> text] : text \in ReasonTexts } \cup
    { [control_id |-> "c1", title |-> "1", summary |-> [error |-> 1],
       results |-> <<[reason |-> ReportText.bucket_is_public]>>,
       run_error |-> text] : text \in ReasonTexts }

\* the benchmarks of the parsed results: one with an expected range, one
\* without
NormalizedBenchmarks == { MappedBenchmarks[1], OtherBenchmarks[1] }

\* the parsed result of a benchmark, not yet normalized
Parsed(benchmarkName, result) ==
    [pc            |-> "parsed",
     benchmarkName |-> benchmarkName,
     result        |-> result,
     controls      |-> <<>>,
     summary       |-> [total |-> 0, passed |-> 0, failed |-> 0,
                        error |-> 0, skip |-> 0, permission_errors |-> 0],
     verification  |-> NoVerification]

\* the engine has printed a result of between one and MaxOccurrences raw
\* controls, or of one control that reports a text, and JSON.parse has
\* accepted it
InitNormalize ==
    /\ InitStore({})
    /\ \/ \E n \in 1..MaxOccurrences :
             \E occs \in RawSequencesOf(n), arrangement \in Arrangements,
                benchmarkName \in NormalizedBenchmarks :
                 powerpipe = Parsed(benchmarkName,
                                    GroupTree(arrangement, occs))
       \/ \E control \in ReportingControls :
             powerpipe = Parsed(MappedBenchmarks[1],
                                GroupTree("one group", <<control>>))

NextNormalize == Normalize

SpecNormalize == InitNormalize /\ [][NextNormalize]_vars

\* the error counts looked at for a total: none, a fifth, just over a fifth
ErrorCounts(totalControls) ==
    { e \in { 0, totalControls \div 5, (totalControls \div 5) + 1 } :
          e <= totalControls }

\* the controls of a benchmark have been counted
InitVerify ==
    /\ InitStore({})
    /\ \E benchmarkName \in BenchmarkNames, totalControls \in 0..MaxTotal :
          \E errorControls \in ErrorCounts(totalControls),
             permissionErrors \in { p \in 0..1 : p <= totalControls } :
              powerpipe = [pc               |-> "counted",
                           benchmarkName    |-> benchmarkName,
                           totalControls    |-> totalControls,
                           errorControls    |-> errorControls,
                           permissionErrors |-> permissionErrors,
                           verification     |-> NoVerification]

NextVerify == Verify

SpecVerify == InitVerify /\ [][NextVerify]_vars

\* ------------------------------------------------------ C18, C19 and C20
RECURSIVE Traversal(_)
RECURSIVE TraversalOfGroups(_, _)
\* the raw controls of a group tree in the order the depth-first traversal
\* meets them: an item's own controls, then its groups from left to right
Traversal(item) ==
    (IF "controls" \in DOMAIN item THEN item.controls ELSE <<>>) \o
    (IF "groups" \in DOMAIN item THEN TraversalOfGroups(item.groups, 1)
                                 ELSE <<>>)

TraversalOfGroups(groups, i) ==
    IF i > Len(groups)
    THEN <<>>
    ELSE Traversal(groups[i]) \o TraversalOfGroups(groups, i + 1)

\* the occurrences of a control id in the parsed result, in traversal order
OccurrencesOf(controlId) ==
    LET IsIt(control) == ControlId(control) = controlId
    IN  SelectSeq(Traversal(powerpipe.result), IsIt)

\* the non-empty control ids of the parsed result
ControlIds ==
    LET seen == Traversal(powerpipe.result)
    IN  { ControlId(seen[i]) : i \in 1..Len(seen) } \ { "" }

\* the records emitted for a control id
RecordsOf(controlId) ==
    { i \in 1..Len(powerpipe.controls) :
          powerpipe.controls[i].control_id = controlId }

\* C18: whenever the normalizer returns, every non-empty control id of the
\* raw result, however many groups it occurs under, has exactly one emitted
\* control record, no record is emitted for anything else, and the summary
\* total is the number of distinct non-empty control ids.
C18_OneRecordPerControl ==
    powerpipe.pc = "returned"
    => /\ \A controlId \in ControlIds :
              Cardinality(RecordsOf(controlId)) = 1
       /\ \A i \in 1..Len(powerpipe.controls) :
              powerpipe.controls[i].control_id \in ControlIds
       /\ powerpipe.summary.total = Cardinality(ControlIds)

\* the normalizer has returned for a result in which one control id occurs
\* in three groups nested in each other
C18_Witness ==
    /\ powerpipe.pc = "returned"
    /\ "controls" \notin DOMAIN powerpipe.result
    /\ Len(powerpipe.result.groups) = 1
    /\ "groups" \in DOMAIN powerpipe.result.groups[1]
    /\ Len(powerpipe.result.groups[1].groups) = 1
    /\ "groups" \in DOMAIN powerpipe.result.groups[1].groups[1]
    /\ Len(OccurrencesOf("c1")) = 3
    /\ Cardinality(RecordsOf("c1")) = 1
    /\ powerpipe.summary.total = 1

\* the record emitted for a control id
KeptRecord(controlId) ==
    powerpipe.controls[CHOOSE i \in RecordsOf(controlId) : TRUE]

\* C19: whenever the normalizer returns and a control id was seen more than
\* once, the kept record is that of an occurrence with non-empty results if
\* the first-seen occurrence had none and some occurrence has one, and is
\* that of the first-seen occurrence in every other case.
C19_KeptOccurrence ==
    powerpipe.pc = "returned"
    => \A controlId \in ControlIds :
           LET seen == OccurrencesOf(controlId)
               kept == KeptRecord(controlId)
               withResults == { j \in 1..Len(seen) : HasResults(seen[j]) }
           IN  Len(seen) > 1
               => IF ~HasResults(seen[1]) /\ withResults # {}
                  THEN \E j \in withResults :
                           kept = transformedControl(seen[j])
                  ELSE kept = transformedControl(seen[1])

\* the count a raw control's summary gives for a key, none being zero
SummaryCount(control, key) ==
    IF "summary" \in DOMAIN control /\ key \in DOMAIN control.summary
    THEN control.summary[key]
    ELSE 0

\* the status the priority alarm > error > ok > none gives a raw control
PriorityStatus(control) ==
    CASE SummaryCount(control, "alarm") > 0 -> "fail"
      [] SummaryCount(control, "alarm") = 0
         /\ SummaryCount(control, "error") > 0 -> "error"
      [] SummaryCount(control, "alarm") = 0
         /\ SummaryCount(control, "error") = 0
         /\ SummaryCount(control, "ok") > 0 -> "pass"
      [] OTHER -> "skip"

\* the occurrence an emitted record was made from: the one with its title
SourceOf(record) ==
    LET seen == Traversal(powerpipe.result)
    IN  seen[CHOOSE i \in 1..Len(seen) : seen[i].title = record.title]

\* C20: whenever the normalizer returns, the status of every emitted record
\* follows the priority alarm > error > ok > none over the summary counts of
\* the occurrence it was made from; {alarm:1, ok:3} derives to fail,
\* {error:1, ok:2} to error, {ok:5} to pass and {} to skip.
C20_StatusPriority ==
    /\ powerpipe.pc = "returned"
       => \A i \in 1..Len(powerpipe.controls) :
              powerpipe.controls[i].status =
                  PriorityStatus(SourceOf(powerpipe.controls[i]))
    /\ DerivedStatus([summary |-> [alarm |-> 1, ok |-> 3]]) = "fail"
    /\ DerivedStatus([summary |-> [error |-> 1, ok |-> 2]]) = "error"
    /\ DerivedStatus([summary |-> [ok |-> 5]]) = "pass"
    /\ DerivedStatus([summary |-> <<>>]) = "skip"

\* the normalizer has returned a control made from a summary with alarms
\* and oks as fail, and one made from a summary with errors and oks as error
C20_Witness ==
    /\ powerpipe.pc = "returned"
    /\ \E i \in 1..Len(powerpipe.controls) :
          LET source == SourceOf(powerpipe.controls[i])
          IN  /\ SummaryCount(source, "alarm") = 1
              /\ SummaryCount(source, "ok") = 3
              /\ powerpipe.controls[i].status = "fail"
    /\ \E i \in 1..Len(powerpipe.controls) :
          LET source == SourceOf(powerpipe.controls[i])
          IN  /\ SummaryCount(source, "error") = 1
              /\ SummaryCount(source, "ok") = 2
              /\ powerpipe.controls[i].status = "error"

\* ------------------------------------------------- C21, C22, C23 and C24
\* the access-denial phrases the vocabulary is described by
AccessDenialPhrases ==
    <<
      \* "access denied"
      <<"a", "c", "c", "e", "s", "s", " ", "d", "e", "n", "i", "e", "d">>,
      \* "unauthorized"
      <<"u", "n", "a", "u", "t", "h", "o", "r", "i", "z", "e", "d">>,
      \* "forbidden"
      <<"f", "o", "r", "b", "i", "d", "d", "e", "n">>,
      \* "insufficient permissions"
      <<"i", "n", "s", "u", "f", "f", "i", "c", "i", "e", "n", "t", " ", "p",
      "e", "r", "m", "i", "s", "s", "i", "o", "n", "s">>,
      \* "not authorized to perform"
      <<"n", "o", "t", " ", "a", "u", "t", "h", "o", "r", "i", "z", "e", "d",
      " ", "t", "o", " ", "p", "e", "r", "f", "o", "r", "m">>
    >>

\* a text contains one of a sequence of phrases
ContainsOneOf(text, phrases) ==
    \E k \in 1..Len(phrases) : includes(text, phrases[k])

\* the lower-cased reason/error text of the raw control a record was made
\* from
ReportedText(record) == errorText(SourceOf(record))

\* C21: whenever the normalizer returns, a record whose lower-cased
\* reason/error text contains "access denied", "unauthorized", "forbidden",
\* "insufficient permissions" or "not authorized to perform" has its
\* permission-error flag set, and a record whose text contains no phrase of
\* the vocabulary has it not set.
C21_PermissionFlag ==
    powerpipe.pc = "returned"
    => \A i \in 1..Len(powerpipe.controls) :
           LET record == powerpipe.controls[i]
               text == ReportedText(record)
           IN  /\ ContainsOneOf(text, AccessDenialPhrases)
                  => record.permission_error
               /\ ~ContainsOneOf(text, AccessDenialPhrases)
                  /\ ~ContainsOneOf(text, permissionErrorKeywords)
                  => ~record.permission_error

\* the error type the priority AccessDenied, UnauthorizedOperation,
\* Forbidden, PermissionError gives a lower-cased text
PriorityErrorType(text) ==
    CASE includes(text, KeywordText.accessdenied)
         \/ includes(text, KeywordText.access_denied) -> "AccessDenied"
      [] /\ ~includes(text, KeywordText.accessdenied)
         /\ ~includes(text, KeywordText.access_denied)
         /\ includes(text, KeywordText.unauthorized) -> "UnauthorizedOperation"
      [] /\ ~includes(text, KeywordText.accessdenied)
         /\ ~includes(text, KeywordText.access_denied)
         /\ ~includes(text, KeywordText.unauthorized)
         /\ includes(text, KeywordText.forbidden) -> "Forbidden"
      [] OTHER -> "PermissionError"

\* C22: whenever the normalizer returns, a record has an error type if and
\* only if its permission-error flag is set, and the type of a flagged record
\* is AccessDenied if its text names an access denial, else
\* UnauthorizedOperation if it names an unauthorized operation, else
\* Forbidden if it says forbidden, else PermissionError; the reason
\* "AccessDenied: user is not authorized" is flagged with type AccessDenied.
C22_ErrorTypePriority ==
    /\ powerpipe.pc = "returned"
       => \A i \in 1..Len(powerpipe.controls) :
              LET record == powerpipe.controls[i]
              IN  /\ record.error_type # Undefined
                     <=> record.permission_error
                  /\ record.permission_error
                     => record.error_type =
                            PriorityErrorType(ReportedText(record))
    /\ isPermissionErrorText(toLowerCase(ReportText.AccessDeniedExample))
    /\ errorTypeOfText(toLowerCase(ReportText.AccessDeniedExample)) = "AccessDenied"

\* the normalizer has returned a flagged record whose text names both an
\* unauthorized operation and forbidden, with type UnauthorizedOperation
C22_Witness ==
    /\ powerpipe.pc = "returned"
    /\ \E i \in 1..Len(powerpipe.controls) :
          LET record == powerpipe.controls[i]
          IN  /\ record.permission_error
              /\ includes(ReportedText(record), KeywordText.unauthorized)
              /\ includes(ReportedText(record), KeywordText.forbidden)
              /\ record.error_type = "UnauthorizedOperation"

\* the (provider, framework) of each benchmark of MappedBenchmarks
MappedPairs ==
    <<[provider |-> "aws", framework |-> "HIPAA"],
      [provider |-> "aws", framework |-> "SOC2"],
      [provider |-> "aws", framework |-> "ISO27001"],
      [provider |-> "aws", framework |-> "CIS"],
      [provider |-> "aws", framework |-> "NIST"],
      [provider |-> "aws", framework |-> "PCI-DSS"],
      [provider |-> "aws", framework |-> "GDPR"],
      [provider |-> "aws", framework |-> "FedRAMP"],
      [provider |-> "azure", framework |-> "HIPAA"],
      [provider |-> "azure", framework |-> "SOC2"],
      [provider |-> "azure", framework |-> "ISO27001"],
      [provider |-> "azure", framework |-> "CIS"],
      [provider |-> "azure", framework |-> "NIST"],
      [provider |-> "azure", framework |-> "PCI-DSS"],
      [provider |-> "gcp", framework |-> "HIPAA"],
      [provider |-> "gcp", framework |-> "SOC2"],
      [provider |-> "gcp", framework |-> "ISO27001"],
      [provider |-> "gcp", framework |-> "CIS"],
      [provider |-> "gcp", framework |-> "NIST"]>>

\* the (provider, framework) of each benchmark of OtherBenchmarks
OtherPairs ==
    <<[provider |-> "azure", framework |-> "GDPR"],
      [provider |-> "gcp", framework |-> "PCI-DSS"],
      [provider |-> "gcp", framework |-> "FedRAMP"],
      [provider |-> "oci", framework |-> "HIPAA"],
      [provider |-> "aws", framework |-> "FSBP"],
      [provider |-> "aws", framework |-> "Thrifty"]>>

\* the (provider, framework) the verified benchmark was invoked for
VerifiedPair ==
    IF \E i \in 1..Len(MappedBenchmarks) :
           MappedBenchmarks[i] = powerpipe.benchmarkName
    THEN MappedPairs[CHOOSE i \in 1..Len(MappedBenchmarks) :
                         MappedBenchmarks[i] = powerpipe.benchmarkName]
    ELSE OtherPairs[CHOOSE i \in 1..Len(OtherBenchmarks) :
                        OtherBenchmarks[i] = powerpipe.benchmarkName]

\* the rows of the static table for the verified pair
VerifiedRanges ==
    { r \in EXPECTED_CONTROL_RANGES :
          /\ r.provider = VerifiedPair.provider
          /\ r.framework = VerifiedPair.framework }

\* the control-count warnings of the returned verification
CountWarningsGiven ==
    { powerpipe.verification.warnings[i].warning :
          i \in 1..Len(powerpipe.verification.warnings) } \cap
    { "significantly below expected range",
      "slightly below expected minimum",
      "significantly exceeds expected maximum" }

C24_NoRangeNoCheck ==
    powerpipe.pc = "returned" /\ "totalControls" \in DOMAIN powerpipe
    => (VerifiedRanges = {}
        => /\ powerpipe.verification.control_count_valid
           /\ CountWarningsGiven = {}
           /\ powerpipe.verification.expected_range = <<>>)

\* runPowerpipeBenchmark has returned a valid verdict without count warning
\* for a single control of a benchmark of (azure, GDPR), a pair the table
\* has no range for
C24_Witness ==
    /\ powerpipe.pc = "returned"
    /\ "totalControls" \in DOMAIN powerpipe
    /\ powerpipe.totalControls = 1
    /\ VerifiedPair = [provider |-> "azure", framework |-> "GDPR"]
    /\ VerifiedRanges = {}
    /\ powerpipe.verification.control_count_valid
    /\ CountWarningsGiven = {}


\* ------------------------------------------------------------ C25 and C26
\* C25: a step in which an invocation returns with an invalid coverage
\* verdict leaves the failure counter and the status of its scan alone and
\* puts the run at the writing of the findings; a step that ends a pair
\* without counting it failed has written a finding for every control of the
\* result; and a run that has ended with a pair not counted failed has set
\* completed.
C25_InvalidVerdictNotFatal ==
    [][/\ \A v \in invocations' \ invocations :
              v.ok /\ ~v.control_count_valid
              => /\ run'[v.scan].benchmarksFailed =
                        run[v.scan].benchmarksFailed
                 /\ compliance_checks'[v.scan].status =
                        compliance_checks[v.scan].status
                 /\ run'[v.scan].pc = "merge"
       /\ \A s \in ScanIds :
              /\ run[s].pc = "insert" /\ run'[s].pc = "loop"
              /\ run'[s].benchmarksFailed = run[s].benchmarksFailed
              => \A k \in 1..Len(run[s].result) :
                     \E f \in written_log' :
                         /\ f.compliance_check_id = s
                         /\ f.control_id = run[s].result[k].control_id
                         /\ f.framework = run[s].frameworksToScan[run[s].fi]
       /\ \A s \in ScanIds :
              /\ run[s].pc = "loop" /\ run'[s].pc = "done"
              /\ run[s].benchmarksFailed < run[s].benchmarksRun
              => compliance_checks'[s].status = "completed"
      ]_vars

\* a scan has ended completed although every one of its invocations came
\* back with an invalid coverage verdict, and its findings are written
C25_Witness ==
    \E s \in ScanIds :
        /\ run[s].pc = "done"
        /\ compliance_checks[s].status = "completed"
        /\ \E v \in invocations : v.scan = s /\ v.ok
        /\ \A v \in invocations :
               v.scan = s /\ v.ok => ~v.control_count_valid
        /\ \E f \in findings : f.compliance_check_id = s


\* the warnings attached to the record of a scan
AttachedWarnings(s) ==
    IF Len(compliance_checks[s].powerpipe_output) = 0
    THEN {}
    ELSE LET stored == compliance_checks[s].powerpipe_output[1].warnings
         IN  { stored[i] : i \in 1..Len(stored) }

\* C26: once executeScan has ended and the scan is completed or failed,
\* every warning the verifier gave for an invocation of the scan is attached
\* to the scan's record.
C26_WarningsAttached ==
    \A s \in ScanIds :
        /\ run[s].pc \in {"done", "timed_out"}
        /\ compliance_checks[s].status \in {"completed", "failed"}
        => \A v \in invocations :
               v.scan = s /\ v.ok
               => \A i \in 1..Len(v.warnings) :
                      \E w \in AttachedWarnings(s) :
                          /\ w.benchmark =
                                 getBenchmarkName(v.framework, v.provider)
                          /\ w.warning = v.warnings[i].warning
                          /\ w.count = v.warnings[i].count

\* C27: findings_history is append-only: no step of a scan and no step of
\* the remediation edit changes or removes a row the table holds; every row
\* of the table before a step is a row of the table after it.
C27_HistoryAppendOnly ==
    [][findings_history \subseteq findings_history']_vars

\* a scan has archived a finding, gone on to write its own findings and
\* ended, a remediation edit has been requested, and the archived row is
\* in the table
C27_Witness ==
    /\ edits > 0
    /\ \E h \in findings_history :
           /\ run[h.archived_by_scan_id].pc = "done"
           /\ \E f \in findings :
                  f.compliance_check_id = h.archived_by_scan_id

\* what the background run of scan s has done to the store and the engine
RunEffects(s) ==
    <<ops[s],
      { v \in invocations : v.scan = s },
      { f \in written_log : f.compliance_check_id = s },
      { h \in findings_history : h.archived_by_scan_id = s }>>

\* C28: POST /api/scans creates the scan record with status in_progress and
\* answers with that in_progress scan in the step that creates it, when the
\* background run has archived nothing, invoked no engine and written no
\* finding; every step of the background run finds the answer already sent,
\* and the answer is never changed afterwards.
C28_RespondsBeforeRun ==
    [][/\ \A s \in 1..Len(compliance_checks') :
              s > Len(compliance_checks)
              => /\ compliance_checks'[s].status = "in_progress"
                 /\ Len(responses'[s]) = 1
                 /\ responses'[s][1].id = s
                 /\ responses'[s][1].status = "in_progress"
                 /\ run'[s].pc = "created"
                 /\ ops'[s] = <<>>
                 /\ \A v \in invocations' : v.scan # s
                 /\ \A f \in written_log' : f.compliance_check_id # s
                 /\ \A h \in findings_history' : h.archived_by_scan_id # s
       /\ \A s \in ScanIds :
              /\ run'[s] # run[s]
                 => /\ Len(responses[s]) = 1
                    /\ responses[s][1].status = "in_progress"
              /\ responses'[s] = responses[s]]_vars

\* the answer of a scan says in_progress while its background run has
\* archived a finding, invoked the engine, written a finding and ended
C28_Witness ==
    \E s \in ScanIds :
        /\ Len(responses[s]) = 1
        /\ responses[s][1].status = "in_progress"
        /\ run[s].pc = "done"
        /\ compliance_checks[s].status = "completed"
        /\ RunEffects(s)[2] # {}
        /\ RunEffects(s)[3] # {}
        /\ RunEffects(s)[4] # {}

\* C29: a scan that fails by timeout at a checkpoint of the pair loop keeps
\* what it did: the step that fails it removes no finding of the scan from
\* the live table and no row the scan archived from findings_history, and
\* afterwards every finding the scan wrote is in the live table under the
\* scan's id unless the archive step of another scan has removed it.
C29_TimeoutKeepsFindings ==
    /\ [][\A s \in ScanIds :
              run[s].pc # "timed_out" /\ run'[s].pc = "timed_out"
              => /\ compliance_checks'[s].status = "failed"
                 /\ findings' = findings
                 /\ findings_history' = findings_history]_vars
    /\ [](\A s \in ScanIds :
              run[s].pc = "timed_out"
              => /\ \A f \in written_log :
                        f.compliance_check_id = s
                        => \/ \E g \in findings :
                                 g.id = f.id /\ g.compliance_check_id = s
                           \/ \E g \in deleted_log : g.id = f.id
                 /\ \A g \in deleted_log :
                        (\E i \in 1..Len(ops[s]) : ops[s][i] = "delete")
                        /\ ArchiveMatch(g, run[s].client_id,
                                        run[s].frameworksToScan)
                        => \E h \in findings_history :
                               h.original_finding_id = g.id)

\* a scan has archived the findings of the scan before it, written the
\* findings of a pair and then failed by timeout at the checkpoint of a later
\* pair; its findings are live and the rows it archived are in the history
C29_Witness ==
    \E s \in ScanIds :
        /\ run[s].pc = "timed_out"
        /\ compliance_checks[s].status = "failed"
        /\ \E f \in findings : f.compliance_check_id = s
        /\ \E h \in findings_history : h.archived_by_scan_id = s

\* C30: in every reachable state the live findings table holds at most one
\* finding per (scan id, control id), also when several pairs of one scan
\* report the same control id.
C30_OneFindingPerScanControl ==
    \A f, g \in findings :
        /\ f.compliance_check_id = g.compliance_check_id
        /\ f.control_id = g.control_id
        => f = g

\* a scan has ended after more of its engine invocations returned than pairs
\* of it succeeded: a pair that came after another pair of the scan had its
\* INSERT refused for a control id the scan had already written
C30_Witness ==
    \E s \in ScanIds :
        /\ run[s].pc = "done"
        /\ Cardinality({ v \in invocations : v.scan = s /\ v.ok })
              > run[s].benchmarksRun - run[s].benchmarksFailed
        /\ \E f \in findings : f.compliance_check_id = s

\* the user has marked finding d resolved: its remediation status is resolved
\* and the last entry of its status history is the change to resolved
MarkedResolved(d) ==
    /\ d.remediation_status = "resolved"
    /\ Len(d.status_history) > 0
    /\ d.status_history[Len(d.status_history)] = "resolved"

\* C31: for a finding the user marked resolved, the finding the next scan
\* writes for the control has remediation status resolved if the control
\* passes and open if the control still fails.
C31_ResolvedRevertsOnFail ==
    [][\A s \in ScanIds :
          Does(s, "insert")
          => \A f \in findings' \ findings : \A d \in deleted_log :
                Replaces(f, d) /\ MarkedResolved(d)
                => /\ f.scan_status = "pass"
                         => f.remediation_status = "resolved"
                   /\ f.scan_status = "fail"
                         => f.remediation_status = "open"]_vars

\* C32: for every scan that has ended in completed, the stored aggregates
\* satisfy total_controls = passed + failed + error + skipped, and
\* total_controls is the number of findings the scan has written under its
\* id that are live (read in the claim's favour: none of them archived by
\* another scan), also when a pair of the scan failed part-way through its
\* inserts.
C32_AggregatesMatchFindings ==
    \A s \in ScanIds :
        /\ run[s].pc = "done"
        /\ Status(s) = "completed"
        /\ \A f \in written_log :
               f.compliance_check_id = s => f \notin deleted_log
        => /\ compliance_checks[s].total_controls =
                  compliance_checks[s].passed_controls
                  + compliance_checks[s].failed_controls
                  + compliance_checks[s].error_controls
                  + compliance_checks[s].skip_controls
           /\ compliance_checks[s].total_controls =
                  Cardinality({ f \in findings : f.compliance_check_id = s })

\* C33: no step inserts a finding, copies findings to the archive or deletes
\* live findings on behalf of a scan whose stored status is completed or
\* failed when the step is taken, also when the status was set to failed by
\* the timeout sweep of GET /api/scans or GET /api/scans/:id.
C33_NoWritesAfterTerminal ==
    [][\A s \in ScanIds :
          Status(s) \in {"completed", "failed"}
          => /\ ~Does(s, "insert")
             /\ ~Does(s, "copy")
             /\ ~Does(s, "delete")]_vars

\* C34: every scan created in in_progress eventually is completed or failed,
\* given that each engine invocation and each store operation of its run
\* returns, with a result or with an error.
C34_EveryScanEnds ==
    \A s \in 1..MaxScans :
        (s \in ScanIds) ~> (s \in ScanIds
                              /\ Status(s) \in {"completed", "failed"})

\* C35: a scan none of whose (credential, framework) pairs has a benchmark
\* is never completed, and when its run has ended it is failed.
C35_NoPairAttemptedFails ==
    \A s \in ScanIds :
        (\A p \in AllPairs(s) : Unmapped(s, p))
        => /\ Status(s) # "completed"
           /\ run[s].pc = "done" => Status(s) = "failed"

\* a scan without any benchmark has ended failed with no pair attempted,
\* after its archive step removed the live findings of the requested
\* framework, of which none is left
C35_Witness ==
    \E s \in ScanIds :
        /\ \A p \in AllPairs(s) : Unmapped(s, p)
        /\ run[s].pc = "done"
        /\ run[s].benchmarksRun = 0
        /\ Status(s) = "failed"
        /\ \E d \in deleted_log : InScope(d, s)
        /\ \E h \in findings_history : h.archived_by_scan_id = s
        /\ ~\E f \in findings : InScope(f, s)

\* the store rejects the upsert of the request in flight: the statement does
\* not pass the store's analysis, or the row it would write names an owner
\* that client_owners does not hold
UpsertRejected ==
    LET existing == { m \in control_metadata :
                        /\ m.client_id = putReq.client_id
                        /\ m.control_id = putReq.control_id }
        written == IF existing = {}
                   THEN {InsertedMetadata(putReq)}
                   ELSE { ConflictUpdatedMetadata(m, putReq) : m \in existing }
    IN  ~(/\ TypeChecks(putReq.data)
          /\ \A m \in written : OwnerReferenceHolds(m))

\* C36: when a PUT /api/findings/:id request ends with the error of a
\* rejected control_metadata upsert, the live finding is as it was before the
\* request: it shows no edit that control_metadata does not hold.
C36_EditAllOrNothing ==
    [][putReq.pc = "updated" /\ putReq'.pc = "idle" /\ UpsertRejected
       => \A f \in findings' : f.id = putReq.id => f = putReq.before]_vars

\* the body fails one of the three tests of the handler
Refused(data) ==
    \/ data.client_id \notin Clients
    \/ /\ "frameworks" \in DOMAIN data
       /\ data.frameworks = <<>>
    \/ /\ "frameworks" \notin DOMAIN data
       /\ data.client_id \in Clients
       /\ assigned_frameworks(data.client_id) = <<>>
    \/ /\ data.client_id \in Clients
       /\ ActiveCredentials(data.client_id) = <<>>

\* C37: POST /api/scans creates no scan record and starts no background run
\* for a client that does not exist, for an empty effective framework set
\* or for a client without active credential: every record and run there is
\* has a client of the clients table, a framework and a credential; and the
\* step that answers such a request answers 404 or 400 and leaves the store
\* as it is.
C37_RefusedRequestsCreateNothing ==
    /\ [](\A s \in ScanIds :
             /\ compliance_checks[s].client_id \in Clients
             /\ Len(compliance_checks[s].frameworks) > 0
             /\ Len(run[s].credentials) > 0)
    /\ [][\A data \in PostRequests :
             Refused(data)
             => /\ ~ENABLED PostScan(data)
                /\ PostScanRejected(data)
                   => /\ postAnswer'[1].status \in {400, 404}
                      /\ compliance_checks' = compliance_checks
                      /\ run' = run
                      /\ findings' = findings
                      /\ findings_history' = findings_history
                      /\ control_metadata' = control_metadata]_vars

\* a request of a tenant without active credential has been answered 400
\* while the store holds the scan of another request, and no scan of that
\* tenant
C37_Witness ==
    /\ Len(postAnswer) = 1
    /\ postAnswer[1].status = 400
    /\ postAnswer[1].data.client_id = "t4"
    /\ "frameworks" \in DOMAIN postAnswer[1].data
    /\ Len(compliance_checks) > 0
    /\ \A s \in ScanIds : compliance_checks[s].client_id # "t4"

\* ------------------------------------------- the engine's standard output
\* runPowerpipeBenchmark between the end of the command and JSON.parse: the
\* structured data is looked for in stdout.  A text is the sequence of its
\* characters; an index is that of the code plus one.
PayloadText ==
    [preamble |->
       { \* (empty)
         <<>>,
         \* v1 
         <<"v", "1", " ">>,
         \* Warning: a new version [v1] is available\n
         <<"W", "a", "r", "n", "i", "n", "g", ":", " ", "a", " ", "n", "e", "w", " ", "v", "e", "r", "s", "i", "o", "n", " ", "[", "v", "1", "]", " ", "i", "s", " ", "a", "v", "a", "i", "l", "a", "b", "l", "e", "\n">>,
         \* [1] 
         <<"[", "1", "]", " ">>,
         \* {x} 
         <<"{", "x", "}", " ">>,
         \* }] 
         <<"}", "]", " ">>,
         \* a"b 
         <<"a", "\"", "b", " ">> },
     data |->
       { \* {"a":[]}
         <<"{", "\"", "a", "\"", ":", "[", "]", "}">>,
         \* {"a":"}"}
         <<"{", "\"", "a", "\"", ":", "\"", "}", "\"", "}">>,
         \* {"a":"\""}
         <<"{", "\"", "a", "\"", ":", "\"", "\\", "\"", "\"", "}">>,
         \* [{"a":"["}]
         <<"[", "{", "\"", "a", "\"", ":", "\"", "[", "\"", "}", "]">>,
         \* {"a":{"b":[],"c":"x"}}
         <<"{", "\"", "a", "\"", ":", "{", "\"", "b", "\"", ":", "[", "]", ",", "\"", "c", "\"", ":", "\"", "x", "\"", "}", "}">> },
     trailer |->
       { \* (empty)
         <<>>,
         \*  ok
         <<" ", "o", "k">>,
         \* \n[w]
         <<"\n", "[", "w", "]">>,
         \*  }
         <<" ", "}">>,
         \*  "q
         <<" ", "\"", "q">> }]

\* String.prototype.trim
trim(text) ==
    LET kept == { i \in 1..Len(text) : text[i] \notin {" ", "\n"} }
    IN  IF kept = {} THEN <<>>
        ELSE SubSeq(text, CHOOSE i \in kept : \A j \in kept : i <= j,
                          CHOOSE i \in kept : \A j \in kept : j <= i)

\* the first occurrence of { or [, or the start of the output if there is
\* none
jsonStart(stdout) ==
    LET opening == { i \in 1..Len(stdout) : stdout[i] \in {"{", "["} }
    IN  IF opening = {} THEN 1
        ELSE CHOOSE i \in opening : \A j \in opening : i <= j

\* the loop over jsonOutput from position i on: the number of characters
\* kept, that is the position at which both counts are back at zero outside
\* a string, or the whole length
RECURSIVE jsonEnd(_, _, _, _, _, _)
jsonEnd(jsonOutput, i, braceCount, bracketCount, inString, escapeNext) ==
    IF i > Len(jsonOutput) THEN Len(jsonOutput)
    ELSE LET char == jsonOutput[i]
         IN  IF escapeNext
             THEN jsonEnd(jsonOutput, i + 1, braceCount, bracketCount,
                          inString, FALSE)
             ELSE IF char = "\\"
             THEN jsonEnd(jsonOutput, i + 1, braceCount, bracketCount,
                          inString, TRUE)
             ELSE IF char = "\""
             THEN jsonEnd(jsonOutput, i + 1, braceCount, bracketCount,
                          ~inString, FALSE)
             ELSE IF ~inString
             THEN LET braces == braceCount
                                + (IF char = "{" THEN 1 ELSE 0)
                                - (IF char = "}" THEN 1 ELSE 0)
                      brackets == bracketCount
                                  + (IF char = "[" THEN 1 ELSE 0)
                                  - (IF char = "]" THEN 1 ELSE 0)
                  IN  IF braces = 0 /\ brackets = 0 /\ i > 1
                      THEN i
                      ELSE jsonEnd(jsonOutput, i + 1, braces, brackets,
                                   inString, FALSE)
             ELSE jsonEnd(jsonOutput, i + 1, braceCount, bracketCount,
                          inString, FALSE)

\* jsonOutput as it is handed to JSON.parse
LocatedOutput(stdout) ==
    LET jsonOutput == trim(SubSeq(stdout, jsonStart(stdout), Len(stdout)))
    IN  SubSeq(jsonOutput, 1, jsonEnd(jsonOutput, 1, 0, 0, FALSE, FALSE))

\* JSON.parse on texts of strings, one-digit numbers, arrays and objects: the
\* position after the value that starts at position i, or 0 if there is none
RECURSIVE JsonStringEnd(_, _), JsonValue(_, _)
RECURSIVE JsonElements(_, _), JsonMembers(_, _)
JsonStringEnd(text, i) ==
    IF i > Len(text) THEN 0
    ELSE IF text[i] = "\\"
    THEN IF i + 1 > Len(text) THEN 0 ELSE JsonStringEnd(text, i + 2)
    ELSE IF text[i] = "\"" THEN i + 1
    ELSE IF text[i] = "\n" THEN 0
    ELSE JsonStringEnd(text, i + 1)

JsonValue(text, i) ==
    IF i > Len(text) THEN 0
    ELSE IF text[i] = "\"" THEN JsonStringEnd(text, i + 1)
    ELSE IF text[i] \in {"0", "1", "2", "3", "4", "5", "6", "7", "8", "9"}
    THEN i + 1
    ELSE IF text[i] = "["
    THEN IF i + 1 <= Len(text) /\ text[i + 1] = "]" THEN i + 2
         ELSE JsonElements(text, i + 1)
    ELSE IF text[i] = "{"
    THEN IF i + 1 <= Len(text) /\ text[i + 1] = "}" THEN i + 2
         ELSE JsonMembers(text, i + 1)
    ELSE 0

JsonElements(text, i) ==
    LET next == JsonValue(text, i)
    IN  IF next = 0 \/ next > Len(text) THEN 0
        ELSE IF text[next] = "," THEN JsonElements(text, next + 1)
        ELSE IF text[next] = "]" THEN next + 1
        ELSE 0

JsonMembers(text, i) ==
    IF i > Len(text) \/ text[i] # "\"" THEN 0
    ELSE LET colon == JsonStringEnd(text, i + 1)
         IN  IF colon = 0 \/ colon > Len(text) \/ text[colon] # ":" THEN 0
             ELSE LET next == JsonValue(text, colon + 1)
                  IN  IF next = 0 \/ next > Len(text) THEN 0
                      ELSE IF text[next] = ","
                      THEN JsonMembers(text, next + 1)
                      ELSE IF text[next] = "}" THEN next + 1
                      ELSE 0

\* the search for the data and JSON.parse, which returns a value if the whole
\* text is one value; its SyntaxError is thrown on to the caller
ReadOutput ==
    /\ powerpipe.pc = "printed"
    /\ LET jsonOutput == LocatedOutput(powerpipe.stdout)
       IN  powerpipe' =
               IF JsonValue(jsonOutput, 1) = Len(jsonOutput) + 1
               THEN [powerpipe EXCEPT !.pc = "read"] @@ [parsed |-> jsonOutput]
               ELSE [powerpipe EXCEPT !.pc = "syntax_error"]
                    @@ [parsed |-> <<>>]
    /\ UNCHANGED <<postAnswer, responses, now, compliance_checks, findings,
                   findings_history, control_metadata, nextFindingId, run,
                   getReq, listReq, putReq, edits, ops, invocations,
                   deleted_log, written_log, steampipe_config>>

InitPayload ==
    /\ InitStore({})
    /\ \E preamble \in PayloadText.preamble, data \in PayloadText.data,
          trailer \in PayloadText.trailer :
           powerpipe = [pc |-> "printed",
                        stdout |-> preamble \o data \o trailer,
                        preamble |-> preamble, data |-> data,
                        trailer |-> trailer]

SpecPayload == InitPayload /\ [][ReadOutput]_vars

\* C38: for every output of the form preamble, structured data, trailer, the
\* text handed to JSON.parse is the structured data and is parsed, whatever
\* characters preamble and trailer hold.
C38_LocatesStructuredData ==
    powerpipe.pc \in {"read", "syntax_error"}
    => /\ powerpipe.pc = "read"
       /\ powerpipe.parsed = powerpipe.data

====
